---- MODULE Spec2Model ----
(***************************************************************************)
(* Tool-calling conversation engine of mcp-open-client:                    *)
(*   - TokenCounter (count_message_tokens, apply_rolling_window,           *)
(*     _verify_tool_integrity, _safe_apply_max_messages,                   *)
(*     _safe_apply_max_tokens) as operators over message sequences;        *)
(*   - the chat endpoint's tool-calling loop (conversation_chat) with      *)
(*     execute_single_tool_call, as a state machine.                       *)
(*                                                                         *)
(* A message dict is a record with the five keys the code reads; a key     *)
(* that is absent or None holds NoneV (the code reads both the same way:   *)
(* dict.get(...) is falsy and the token count skips None values).          *)
(* tool_calls is the sequence of the calls' ids.                           *)
(***************************************************************************)
EXTENDS Integers, Sequences, FiniteSets, TLC

VARIABLES
    \* ---- TokenCounter called on its own (WindowSpec) ----
    in_messages,      \* the messages argument
    in_max_tokens,    \* the max_tokens argument (NoneInt: None)
    in_max_messages,  \* the max_messages argument (NoneInt: None)
    op,               \* which call has run: "none", "repair", "repair2", "window"
    prev_messages,    \* the result of the call before the last one
    out_messages,     \* the returned message list
    out_tokens,       \* the returned token count
    \* ---- the chat endpoint (Spec) ----
    conv_max_tokens,   \* conversation.max_tokens
    conv_max_messages, \* conversation.max_messages
    log,               \* conversation.messages: the persisted log
    pc,                \* where conversation_chat stands
    messages_for_llm,  \* the running message list
    iteration,         \* the loop counter
    assistant_message, \* the local assistant_message (NoneMsg: None)
    user_message,      \* the local user_message
    response,          \* the model's last answer: response.choices[0].message
    tool_idx,          \* index of the next tool call of the response to execute
    request_messages,  \* request_params["messages"]
    token_count,       \* the local token_count
    outcome,           \* how the last request ended
    events,            \* what the SSE service was asked to emit for the last tool call
    model_calls,       \* completion calls issued by this request
    requests,          \* chat requests started so far
    text_answers,      \* the texts of the model's answers without tool calls, this request
    log_at_start,      \* Len(log) when this request started
    varied,            \* answers the model has chosen freely so far
    tool_runtime,      \* the tool servers' runtime: "answering" or "silent"
    sink,              \* the SSE service: "up" or "failing" (every emit raises)
    dispatch,          \* what the last tool call did with the tool runtime
    \* ---- message and tool preparation called on their own (PrepSpec) ----
    p_conv,            \* what storage.load returns for the conversation id
    p_servers,         \* the servers the server manager knows, by id
    p_op,              \* which call has run: "none", "messages", "tools"
    p_prepared,        \* what prepare_messages returned
    p_tools,           \* what prepare_tools_for_llm returned
    \* ---- helpers of tool_execution called on their own (HelperSpec) ----
    h_input,           \* the input_schema argument, as it was at the call
    h_schema,          \* the object input_schema refers to, as it is now
    h_modified,        \* what inject_required_context_arguments returned
    h_args,            \* the arguments dict, as it was at the call
    h_args_now,        \* the object arguments refers to, as it is now
    h_filtered,        \* what filter_context_arguments returned
    h_op,              \* which call has run: "none", "inject", "filter"
    \* ---- ProcessManager (ProcSpec) ----
    m_servers,         \* _servers: server id -> name, slug, status
    m_slug_to_id,      \* _slug_to_id
    m_processes,       \* the keys of _processes
    m_result,          \* how the last call ended
    \* ---- lifecycle_manager over a ProcessManager (LifeSpec) ----
    l_clients,         \* clients: the (server id, client) items of the dict
    l_conn,            \* the state of every client object
    l_task,            \* the lifecycle calls in progress, one per task
    \* ---- two chat requests on one conversation (ConcSpec) ----
    q_log,             \* the stored messages of the conversation
    q_req              \* the two requests: where each is, what it has saved

wvars == <<in_messages, in_max_tokens, in_max_messages, op, prev_messages,
           out_messages, out_tokens>>

cvars == <<conv_max_tokens, conv_max_messages, log, pc, messages_for_llm,
           iteration, assistant_message, user_message, response, tool_idx,
           request_messages, token_count, outcome, events, model_calls, requests,
           text_answers, log_at_start, varied, tool_runtime, sink, dispatch>>

pvars == <<p_conv, p_servers, p_op, p_prepared, p_tools>>

hvars == <<h_input, h_schema, h_modified, h_args, h_args_now, h_filtered, h_op>>

mvars == <<m_servers, m_slug_to_id, m_processes, m_result>>

lvars == <<l_clients, l_conn, l_task>>

qvars == <<q_log, q_req>>

vars == <<wvars, cvars, pvars, hvars, mvars, lvars, qvars>>

-----------------------------------------------------------------------------
(* Messages *)

NoneV == "None"

NoneInt == -1

Msg(role, content, tool_calls, tool_call_id, name) ==
    [role |-> role, content |-> content, tool_calls |-> tool_calls,
     tool_call_id |-> tool_call_id, name |-> name]

SystemMsg(c)        == Msg("system", c, <<>>, NoneV, NoneV)
UserMsg(c)          == Msg("user", c, <<>>, NoneV, NoneV)
AssistantMsg(c)     == Msg("assistant", c, <<>>, NoneV, NoneV)
ToolCallsMsg(c, tc) == Msg("assistant", c, tc, NoneV, NoneV)
ToolMsg(c, id, n)   == Msg("tool", c, <<>>, id, n)

\* A tool call of an answer of the model; an answer: response.choices[0].message.
ToolCall(id, name, arguments) == [id |-> id, name |-> name, arguments |-> arguments]

Answer(content, tool_calls) == [content |-> content, tool_calls |-> tool_calls]

\* No answer received yet.
NoAnswer == Answer(NoneV, <<>>)

Range(s) == {s[i] : i \in 1..Len(s)}

\* A local that holds None where a message is expected.
NoneMsg == Msg(NoneV, NoneV, <<>>, NoneV, NoneV)

HasToolCalls(m) == m.role = "assistant" /\ m.tool_calls # <<>>

-----------------------------------------------------------------------------
(* count_message_tokens *)

\* len(encoding.encode(text)): the tokenizer is an external library; a text
\* of the model is given a fixed length, the empty string none.
EncLen(text) ==
    CASE text = ""    -> 0
      [] text = "err" -> 3
      [] text = "res" -> 2
      [] OTHER        -> 1

\* len(encoding.encode(json.dumps(tool_calls)))
EncLenCalls(tool_calls) == 2 + 5 * Len(tool_calls)

\* The cost of one message: tokens_per_message, plus every non-None value
\* encoded, plus tokens_per_name for the key "name".
MsgTokens(m) ==
    3 + EncLen(m.role)
      + (IF m.content # NoneV THEN EncLen(m.content) ELSE 0)
      + (IF m.tool_calls # <<>> THEN EncLenCalls(m.tool_calls) ELSE 0)
      + (IF m.tool_call_id # NoneV THEN EncLen(m.tool_call_id) ELSE 0)
      + (IF m.name # NoneV THEN EncLen(m.name) + 1 ELSE 0)

RECURSIVE SumTokens(_)
SumTokens(messages) ==
    IF messages = <<>> THEN 0
    ELSE MsgTokens(Head(messages)) + SumTokens(Tail(messages))

count_message_tokens(messages) == SumTokens(messages) + 3

-----------------------------------------------------------------------------
(* _verify_tool_integrity *)

\* The kept messages, newest first.
PickReversed(messages, idx) ==
    [k \in 1..Len(idx) |-> messages[idx[Len(idx) + 1 - k]]]

\* The list `verified` holds references to messages of the input: it is kept
\* here as the sequence of their positions in `messages`.
Pick(messages, idx) == [k \in 1..Len(idx) |-> messages[idx[k]]]

\* for i in range(len(verified) - 1, -1, -1): pop the last assistant message
\* with tool_calls, and only that message.
PopLastToolCalls(messages, verified) ==
    LET at == {k \in 1..Len(verified) : HasToolCalls(messages[verified[k]])}
    IN  IF at = {} THEN verified
        ELSE LET k == CHOOSE x \in at : \A y \in at : y <= x
             IN  SubSeq(verified, 1, k - 1) \o SubSeq(verified, k + 1, Len(verified))

\* One iteration of the scan, over messages[i].
ScanStep(messages, i, st) ==
    LET m == messages[i] IN
    IF m.role = "assistant" THEN
        IF m.tool_calls # <<>> THEN
            [verified |-> Append(st.verified, i), active |-> Range(m.tool_calls)]
        ELSE IF st.active # {} THEN
            [verified |-> Append(PopLastToolCalls(messages, st.verified), i),
             active |-> {}]
        ELSE
            [verified |-> Append(st.verified, i), active |-> st.active]
    ELSE IF m.role = "tool" THEN
        IF m.tool_call_id # NoneV /\ m.tool_call_id \in st.active THEN
            [verified |-> Append(st.verified, i),
             active |-> st.active \ {m.tool_call_id}]
        ELSE st
    ELSE IF m.role = "user" THEN
        IF st.active # {} THEN
            [verified |-> Append(PopLastToolCalls(messages, st.verified), i),
             active |-> {}]
        ELSE
            [verified |-> Append(st.verified, i), active |-> st.active]
    ELSE
        [verified |-> Append(st.verified, i), active |-> st.active]

RECURSIVE Scan(_, _, _)
Scan(messages, i, st) ==
    IF i > Len(messages) THEN st
    ELSE Scan(messages, i + 1, ScanStep(messages, i, st))

\* The positions of the messages that _verify_tool_integrity returns.
KeptIndices(messages) ==
    LET st == Scan(messages, 1, [verified |-> <<>>, active |-> {}])
    IN  IF st.active # {} THEN PopLastToolCalls(messages, st.verified)
        ELSE st.verified

verify_tool_integrity(messages) == Pick(messages, KeptIndices(messages))

-----------------------------------------------------------------------------
(* _safe_apply_max_messages, _safe_apply_max_tokens, apply_rolling_window *)

\* messages[-n:] of Python: the last n elements, and the whole list for n = 0.
LastN(messages, n) ==
    IF n = 0 \/ n >= Len(messages) THEN messages
    ELSE SubSeq(messages, Len(messages) - n + 1, Len(messages))

safe_apply_max_messages(messages, max_messages) ==
    IF Len(messages) <= max_messages THEN messages
    ELSE verify_tool_integrity(LastN(messages, max_messages))

\* The cost of one message without tokens_per_message.
walk_msg_tokens_without_overhead(m) ==
    EncLen(m.role)
      + (IF m.content # NoneV THEN EncLen(m.content) ELSE 0)
      + (IF m.tool_calls # <<>> THEN EncLenCalls(m.tool_calls) ELSE 0)
      + (IF m.tool_call_id # NoneV THEN EncLen(m.tool_call_id) ELSE 0)
      + (IF m.name # NoneV THEN EncLen(m.name) + 1 ELSE 0)

\* msg_tokens of _safe_apply_max_tokens: the walk counts a message with its
\* own copy of the loop of count_message_tokens.
walk_msg_tokens(m) ==
    3 + (EncLen(m.role)
          + (IF m.content # NoneV THEN EncLen(m.content) ELSE 0)
          + (IF m.tool_calls # <<>> THEN EncLenCalls(m.tool_calls) ELSE 0)
          + (IF m.tool_call_id # NoneV THEN EncLen(m.tool_call_id) ELSE 0)
          + (IF m.name # NoneV THEN EncLen(m.name) + 1 ELSE 0))

\* A walk that passes over a message that does not fit and goes on to the
\* older ones.
RECURSIVE TokenWalkSkipping(_, _, _, _, _)
TokenWalkSkipping(messages, i, filtered, current_tokens, max_tokens) ==
    IF i = 0 THEN filtered
    ELSE IF current_tokens + walk_msg_tokens(messages[i]) > max_tokens
    THEN TokenWalkSkipping(messages, i - 1, filtered, current_tokens, max_tokens)
    ELSE TokenWalkSkipping(messages, i - 1, <<messages[i]>> \o filtered,
                           current_tokens + walk_msg_tokens(messages[i]), max_tokens)

\* The walk from newest to oldest: i is the message looked at, filtered what
\* is kept so far, current_tokens its cost with the priming tokens.
RECURSIVE TokenWalk(_, _, _, _, _)
TokenWalk(messages, i, filtered, current_tokens, max_tokens) ==
    IF i = 0 THEN filtered
    ELSE IF current_tokens + walk_msg_tokens(messages[i]) > max_tokens THEN filtered
    ELSE TokenWalk(messages, i - 1, <<messages[i]>> \o filtered,
                   current_tokens + walk_msg_tokens(messages[i]), max_tokens)

\* The walk started without the priming tokens.
safe_apply_max_tokens_unprimed(messages, max_tokens) ==
    verify_tool_integrity(TokenWalk(messages, Len(messages), <<>>, 0, max_tokens))

safe_apply_max_tokens(messages, max_tokens) ==
    verify_tool_integrity(TokenWalk(messages, Len(messages), <<>>, 3, max_tokens))

apply_rolling_window(messages, max_tokens, max_messages) ==
    IF messages = <<>> THEN [messages |-> messages, tokens |-> 0]
    ELSE
        LET m1 == verify_tool_integrity(messages)
            m2 == IF max_messages # NoneInt /\ Len(m1) > max_messages
                  THEN safe_apply_max_messages(m1, max_messages) ELSE m1
            m3 == IF max_tokens # NoneInt
                  THEN safe_apply_max_tokens(m2, max_tokens) ELSE m2
            m4 == verify_tool_integrity(m3)
        IN  [messages |-> m4, tokens |-> count_message_tokens(m4)]

-----------------------------------------------------------------------------
(* TokenCounter called on its own: WindowSpec *)

MaxLen == 4

\* The messages the inputs are made of: one of each role, an assistant
\* message per call list, a tool message per id and one without an id.
TestMessages ==
    { SystemMsg("sys"), UserMsg("q"), AssistantMsg("hi"),
      ToolCallsMsg(NoneV, <<"a">>), ToolCallsMsg(NoneV, <<"b">>),
      ToolCallsMsg(NoneV, <<"a", "b">>),
      ToolMsg("res", "a", "t"), ToolMsg("res", "b", "t"),
      Msg("tool", "res", <<>>, NoneV, NoneV) }

TestInputs == UNION {[1..n -> TestMessages] : n \in 0..MaxLen}

TestMaxMessages == {NoneInt, 0, 2}

TestMaxTokens == {NoneInt, 0, 7, 12, 20}

\* A conversation as storage.load returns it; found is FALSE for None.
Conversation(found, messages, enabled_tools) ==
    [found |-> found, messages |-> messages, enabled_tools |-> enabled_tools]

NoConversation == Conversation(FALSE, <<>>, <<>>)

\* What prepare_messages returns; found is FALSE for None.
Prepared(found, messages, enabled_tools) ==
    [found |-> found, messages |-> messages, enabled_tools |-> enabled_tools]

\* What prepare_tools_for_llm returns: the names of tools_for_llm in order,
\* and tool_server_mapping as a function from tool names to server ids.
PreparedTools(tools_for_llm, mapping) ==
    [tools_for_llm |-> tools_for_llm, mapping |-> mapping]

NoTools == PreparedTools(<<>>, <<>>)

\* What a tool call did with the tool runtime: whether call_server_tool was
\* invoked, the arguments it was given, the local tool_args after the call,
\* and whether an emit of the call raised.
Dispatch(invoked, sent, tool_args, emit_raised) ==
    [invoked |-> invoked, sent |-> sent, tool_args |-> tool_args,
     emit_raised |-> emit_raised]

NoDispatch == Dispatch(FALSE, {}, {}, FALSE)

\* A JSON schema object: whether it is None, its keys other than
\* "properties" and "required", and the dict under "properties" (as the set
\* of its (name, type) pairs) and the list under "required" where present.
Schema(is_none, keys, has_properties, properties, has_required, required) ==
    [is_none |-> is_none, keys |-> keys,
     has_properties |-> has_properties, properties |-> properties,
     has_required |-> has_required, required |-> required]

NoSchema == Schema(TRUE, {}, FALSE, {}, FALSE, <<>>)

HelperIdle ==
    /\ h_input = NoSchema
    /\ h_schema = NoSchema
    /\ h_modified = NoSchema
    /\ h_args = {}
    /\ h_args_now = {}
    /\ h_filtered = {}
    /\ h_op = "none"

\* ProcessManager.__init__ with no servers in the configuration file.
ProcIdle ==
    /\ m_servers = {}
    /\ m_slug_to_id = {}
    /\ m_processes = {}
    /\ m_result = [op |-> "none", key |-> <<>>, result |-> "none"]

\* No lifecycle call has been made.
LifeIdle ==
    /\ l_clients = <<>>
    /\ l_conn = {}
    /\ l_task = {}

\* No chat request has been made.
ConcIdle ==
    /\ q_log = <<>>
    /\ q_req = {}

WindowIdle ==
    /\ in_messages = <<>>
    /\ in_max_tokens = NoneInt
    /\ in_max_messages = NoneInt
    /\ op = "none"
    /\ prev_messages = <<>>
    /\ out_messages = <<>>
    /\ out_tokens = 0

PrepIdle ==
    /\ p_conv = NoConversation
    /\ p_servers = <<>>
    /\ p_op = "none"
    /\ p_prepared = Prepared(FALSE, <<>>, <<>>)
    /\ p_tools = NoTools

ChatIdle ==
    /\ conv_max_tokens = NoneInt
    /\ conv_max_messages = NoneInt
    /\ log = <<>>
    /\ pc = "idle"
    /\ messages_for_llm = <<>>
    /\ iteration = 0
    /\ assistant_message = NoneMsg
    /\ user_message = NoneMsg
    /\ response = NoAnswer
    /\ tool_idx = 0
    /\ request_messages = <<>>
    /\ token_count = 0
    /\ outcome = "none"
    /\ events = <<>>
    /\ model_calls = 0
    /\ requests = 0
    /\ text_answers = <<>>
    /\ log_at_start = 0
    /\ varied = 0
    /\ tool_runtime = "answering"
    /\ sink = "up"
    /\ dispatch = NoDispatch

WindowInit ==
    /\ in_messages \in TestInputs
    /\ in_max_tokens = NoneInt
    /\ in_max_messages = NoneInt
    /\ op = "none"
    /\ prev_messages = <<>>
    /\ out_messages = <<>>
    /\ out_tokens = 0
    /\ ChatIdle
    /\ PrepIdle
    /\ HelperIdle
    /\ ProcIdle
    /\ LifeIdle
    /\ ConcIdle

\* repair(m)
CallRepair ==
    /\ op = "none"
    /\ out_messages' = verify_tool_integrity(in_messages)
    /\ op' = "repair"
    /\ UNCHANGED <<in_messages, in_max_tokens, in_max_messages, prev_messages,
                   out_tokens, cvars, pvars, hvars, mvars, lvars, qvars>>

\* repair(repair(m))
CallRepairAgain ==
    /\ op = "repair"
    /\ prev_messages' = out_messages
    /\ out_messages' = verify_tool_integrity(out_messages)
    /\ op' = "repair2"
    /\ UNCHANGED <<in_messages, in_max_tokens, in_max_messages, out_tokens, cvars, pvars, hvars, mvars, lvars, qvars>>

\* apply_rolling_window(m, max_tokens, max_messages)
CallWindow ==
    /\ op = "none"
    /\ \E mt \in TestMaxTokens, mm \in TestMaxMessages :
        LET r == apply_rolling_window(in_messages, mt, mm)
        IN  /\ in_max_tokens' = mt
            /\ in_max_messages' = mm
            /\ out_messages' = r.messages
            /\ out_tokens' = r.tokens
    /\ op' = "window"
    /\ UNCHANGED <<in_messages, prev_messages, cvars, pvars, hvars, mvars, lvars, qvars>>

WindowNext == CallRepair \/ CallRepairAgain \/ CallWindow

WindowSpec == WindowInit /\ [][WindowNext]_vars

-----------------------------------------------------------------------------
(* The chat endpoint: conversation_chat *)

max_iterations == 50

\* The model chooses its first MaxVaried answers of a behaviour freely; from
\* then on it repeats its last answer.
MaxVaried == 2

\* Chat requests started in a behaviour, one after the other.
MaxRequests == 2

\* A request is started only while the stored history is this short.
MaxStored == 4

\* (max_tokens, max_messages) of the conversation.
ConvLimits == {<<NoneInt, NoneInt>>, <<NoneInt, 3>>, <<45, NoneInt>>}

\* The answers of the model provider: tool calls (to a tool that returns and
\* one that fails, to a tool no server owns, with arguments that are no
\* JSON), text, blank text, the empty string, no content.
ModelAnswers ==
    { Answer(NoneV, <<ToolCall("a", "good", "{x,reason,plan}"),
                      ToolCall("b", "flaky", "{}")>>),
      Answer(NoneV, <<ToolCall("a", "ghost", "{}")>>),
      Answer(NoneV, <<ToolCall("a", "good", "{oops")>>),
      Answer("hi", <<>>),
      Answer(" ", <<>>),
      Answer("", <<>>),
      Answer(NoneV, <<>>) }

\* tool_server_mapping of the request: the tools a running server declares.
tool_server_mapping == {"good", "flaky"}

\* json.loads(tool_call.function.arguments) returns (it raises otherwise).
json_loads_ok(arguments) == arguments \in {"{}", "{x,reason,plan}"}

\* The dict json.loads returns, as the set of its (key, value) pairs.
json_loads(arguments) ==
    IF arguments = "{x,reason,plan}"
    THEN {<<"x", "1">>, <<"tool_usage_reason", "why">>, <<"error_handling_plan", "plan">>}
    ELSE {}

\* A filter that removes tool_usage_reason only.
filter_context_arguments_one(arguments) ==
    [returned |-> {kv \in arguments : kv[1] # "tool_usage_reason"},
     arguments |-> arguments]

\* filter_context_arguments: the dict it returns, and the dict it was given
\* as it is after the call (the pops are made on a copy).
filter_context_arguments(arguments) ==
    LET filtered == arguments
    IN  [returned |-> {kv \in filtered :
                          kv[1] \notin {"tool_usage_reason", "error_handling_plan"}},
         arguments |-> arguments]

\* An emit whose exception reaches the caller.
emit_propagates_uncaught(sink_state) == sink_state = "failing"

\* Every emit is wrapped in try / except Exception: whether an exception of
\* the SSE service reaches the caller of the emit.
emit_propagates(sink_state) == FALSE

\* server_manager.call_server_tool returns a result (it raises otherwise: the
\* tool failed).
call_server_tool_ok(tool_name) == tool_name = "good"

\* execute_single_tool_call reaches the await of server_manager.call_server_tool
\* (line 200): the arguments parse and a server owns the tool.
AwaitsRuntime(tool_call) ==
    json_loads_ok(tool_call.arguments) /\ tool_call.name \in tool_server_mapping

\* len(content) > 0: the test without the strip.
HasContentUnstripped(content) == content \notin {NoneV, ""}

\* len(content.strip()) > 0
HasContent(content) == content \notin {NoneV, "", " "}

\* Truth of an Optional[int] in Python.
Truthy(x) == x # NoneInt /\ x # 0

\* The new user message put before the stored history.
prepare_messages_user_first(stored, new_user_message) ==
    <<UserMsg(new_user_message)>>
        \o [k \in 1..Len(stored) |-> Msg(stored[k].role, stored[k].content, <<>>, NoneV, NoneV)]

\* ChatOperations.prepare_messages: role and content of every stored message,
\* then the new user message.
prepare_messages(stored, new_user_message) ==
    [k \in 1..Len(stored) |-> Msg(stored[k].role, stored[k].content, <<>>, NoneV, NoneV)]
        \o <<UserMsg(new_user_message)>>

\* ChatOperations.prepare_messages with what storage.load returns: None for
\* a conversation that is not stored.
prepare_messages_for(conversation, new_user_message) ==
    IF ~conversation.found THEN Prepared(FALSE, <<>>, <<>>)
    ELSE Prepared(TRUE,
                  prepare_messages(conversation.messages, new_user_message),
                  conversation.enabled_tools)

\* token_management.apply_rolling_window, for a conversation that exists.
window_for_iteration(messages, max_tokens, max_messages) ==
    IF Truthy(max_tokens) \/ Truthy(max_messages)
    THEN apply_rolling_window(messages, max_tokens, max_messages)
    ELSE [messages |-> messages, tokens |-> count_message_tokens(messages)]

\* A loop condition that lets one more iteration in.
LoopGuardInclusive(i) == i <= max_iterations

\* The loop condition.
LoopGuard(i) == i < max_iterations

\* A tool call that looks the server up with tool_server_mapping[tool_name]
\* and raises KeyError for a tool that no server owns.
execute_single_tool_call_keyerror(tool_call) ==
    IF ~json_loads_ok(tool_call.arguments) \/ tool_call.name \notin tool_server_mapping
    THEN [raised |-> TRUE, result |-> NoneV, events |-> <<"tool_call">>,
          invoked |-> FALSE, sent |-> {}, tool_args |-> {}]
    ELSE LET f == filter_context_arguments(json_loads(tool_call.arguments))
         IN  [raised |-> FALSE,
              result |-> IF call_server_tool_ok(tool_call.name) THEN "res" ELSE "err",
              events |-> IF call_server_tool_ok(tool_call.name)
                         THEN <<"tool_call", "tool_response">>
                         ELSE <<"tool_call", "tool_error">>,
              invoked |-> TRUE, sent |-> f.returned, tool_args |-> f.arguments]

\* A tool call that emits the response event before the result is converted,
\* so that a failing call emits the response event and then the error event.
execute_single_tool_call_two_terminals(tool_call) ==
    IF ~json_loads_ok(tool_call.arguments) THEN
        [raised |-> TRUE, result |-> NoneV, events |-> <<>>,
         invoked |-> FALSE, sent |-> {}, tool_args |-> {}]
    ELSE
        LET tool_args == json_loads(tool_call.arguments)
            f == filter_context_arguments(tool_args)
        IN  IF tool_call.name \notin tool_server_mapping THEN
                [raised |-> FALSE, result |-> "err",
                 events |-> <<"tool_call", "tool_error">>,
                 invoked |-> FALSE, sent |-> {}, tool_args |-> tool_args]
            ELSE IF call_server_tool_ok(tool_call.name) THEN
                [raised |-> FALSE, result |-> "res",
                 events |-> <<"tool_call", "tool_response">>,
                 invoked |-> TRUE, sent |-> f.returned, tool_args |-> f.arguments]
            ELSE
                [raised |-> FALSE, result |-> "err",
                 events |-> <<"tool_call", "tool_response", "tool_error">>,
                 invoked |-> TRUE, sent |-> f.returned, tool_args |-> f.arguments]

\* execute_single_tool_call: whether it raises, the text it returns, the
\* events it hands to the SSE service, whether it invokes the tool runtime
\* and with which arguments, and its local tool_args at the end.
execute_single_tool_call(tool_call) ==
    IF ~json_loads_ok(tool_call.arguments) THEN
        [raised |-> TRUE, result |-> NoneV, events |-> <<>>,
         invoked |-> FALSE, sent |-> {}, tool_args |-> {}]
    ELSE
        LET tool_args == json_loads(tool_call.arguments)
            f == filter_context_arguments(tool_args)
        IN  IF tool_call.name \notin tool_server_mapping THEN
                [raised |-> FALSE, result |-> "err",
                 events |-> <<"tool_call", "tool_error">>,
                 invoked |-> FALSE, sent |-> {}, tool_args |-> tool_args]
            ELSE IF call_server_tool_ok(tool_call.name) THEN
                [raised |-> FALSE, result |-> "res",
                 events |-> <<"tool_call", "tool_response">>,
                 invoked |-> TRUE, sent |-> f.returned, tool_args |-> f.arguments]
            ELSE
                [raised |-> FALSE, result |-> "err",
                 events |-> <<"tool_call", "tool_error">>,
                 invoked |-> TRUE, sent |-> f.returned, tool_args |-> f.arguments]

CallIdsOf(answer) == [k \in 1..Len(answer.tool_calls) |-> answer.tool_calls[k].id]

\* What the model may answer now.
AllowedAnswers ==
    IF varied < MaxVaried THEN ModelAnswers ELSE {response}

Init ==
    /\ in_messages = <<>>
    /\ in_max_tokens = NoneInt
    /\ in_max_messages = NoneInt
    /\ op = "none"
    /\ prev_messages = <<>>
    /\ out_messages = <<>>
    /\ out_tokens = 0
    /\ PrepIdle
    /\ HelperIdle
    /\ ProcIdle
    /\ LifeIdle
    /\ ConcIdle
    /\ \E lim \in ConvLimits :
        /\ conv_max_tokens = lim[1]
        /\ conv_max_messages = lim[2]
    /\ log = <<>>
    /\ pc = "idle"
    /\ messages_for_llm = <<>>
    /\ iteration = 0
    /\ assistant_message = NoneMsg
    /\ user_message = NoneMsg
    /\ response = NoAnswer
    /\ tool_idx = 0
    /\ request_messages = <<>>
    /\ token_count = 0
    /\ outcome = "none"
    /\ events = <<>>
    /\ model_calls = 0
    /\ requests = 0
    /\ text_answers = <<>>
    /\ log_at_start = 0
    /\ varied = 0
    /\ tool_runtime = "answering"
    /\ sink = "up"
    /\ dispatch = NoDispatch

\* Lines 41-132: the conversation exists and a provider is configured; the
\* messages are prepared, the user message is saved, the loop is entered.
StartChat ==
    /\ pc = "idle"
    /\ requests < MaxRequests
    /\ Len(log) <= MaxStored
    /\ requests' = requests + 1
    /\ log_at_start' = Len(log)
    /\ messages_for_llm' = prepare_messages(log, "q")
    /\ log' = Append(log, UserMsg("q"))
    /\ user_message' = UserMsg("q")
    /\ assistant_message' = NoneMsg
    /\ iteration' = 0
    /\ tool_idx' = 0
    /\ request_messages' = <<SystemMsg("sys")>> \o prepare_messages(log, "q")
    /\ token_count' = 0
    /\ outcome' = "none"
    /\ events' = <<>>
    /\ model_calls' = 0
    /\ text_answers' = <<>>
    /\ dispatch' = NoDispatch
    /\ pc' = "loop"
    /\ UNCHANGED <<wvars, pvars, hvars, mvars, lvars, qvars, sink, tool_runtime, conv_max_tokens, conv_max_messages, response, varied>>

\* A request for an unknown conversation that saves the user message before
\* it reports not-found.
ChatNotFoundAfterSave ==
    /\ pc = "idle"
    /\ ~p_conv.found
    /\ log' = Append(log, UserMsg("q"))
    /\ outcome' = "error_404"
    /\ UNCHANGED <<wvars, pvars, hvars, mvars, lvars, qvars, sink, dispatch, tool_runtime, conv_max_tokens, conv_max_messages, pc,
                   messages_for_llm, iteration, assistant_message, user_message,
                   response, tool_idx, request_messages, token_count, events,
                   model_calls, requests, text_answers, log_at_start, varied>>

\* Lines 41-47 and 61-68: a request for a conversation id that is not stored
\* (get_conversation and prepare_chat_messages return None): 404.
ChatNotFound ==
    /\ pc = "idle"
    /\ ~p_conv.found
    /\ ~prepare_messages_for(p_conv, "q").found
    /\ outcome' = "error_404"
    /\ UNCHANGED <<wvars, pvars, hvars, mvars, lvars, qvars, sink, dispatch, tool_runtime, conv_max_tokens, conv_max_messages, log, pc,
                   messages_for_llm, iteration, assistant_message, user_message,
                   response, tool_idx, request_messages, token_count, events,
                   model_calls, requests, text_answers, log_at_start, varied>>

\* An iteration that sends the running list as it is, without the window.
CallModelUnwindowed ==
    /\ pc = "loop"
    /\ LoopGuard(iteration)
    /\ iteration' = iteration + 1
    /\ token_count' = count_message_tokens(messages_for_llm)
    /\ request_messages' = <<SystemMsg("sys")>> \o messages_for_llm
    /\ model_calls' = model_calls + 1
    /\ pc' = "awaiting_model"
    /\ UNCHANGED <<wvars, pvars, hvars, mvars, lvars, qvars, sink, dispatch, tool_runtime, conv_max_tokens, conv_max_messages, log,
                   messages_for_llm, assistant_message, user_message, response,
                   tool_idx, outcome, events, requests, text_answers, log_at_start,
                   varied>>

\* Lines 134-151: one more iteration: the window, then the completion call.
CallModel ==
    /\ pc = "loop"
    /\ LoopGuard(iteration)
    /\ iteration' = iteration + 1
    /\ LET w == window_for_iteration(messages_for_llm, conv_max_tokens, conv_max_messages)
       IN  /\ messages_for_llm' = w.messages
           /\ token_count' = w.tokens
           /\ request_messages' = <<SystemMsg("sys")>> \o w.messages
    /\ model_calls' = model_calls + 1
    /\ pc' = "awaiting_model"
    /\ UNCHANGED <<wvars, pvars, hvars, mvars, lvars, qvars, sink, dispatch, tool_runtime, conv_max_tokens, conv_max_messages, log, assistant_message,
                   user_message, response, tool_idx, outcome, events, requests,
                   text_answers, log_at_start, varied>>

\* Lines 286-300: the loop is left without a break.
LoopExit ==
    /\ pc = "loop"
    /\ ~LoopGuard(iteration)
    /\ outcome' = IF assistant_message = NoneMsg THEN "error_500" ELSE "success"
    /\ pc' = "idle"
    /\ UNCHANGED <<wvars, pvars, hvars, mvars, lvars, qvars, sink, dispatch, tool_runtime, conv_max_tokens, conv_max_messages, log, messages_for_llm,
                   iteration, assistant_message, user_message, response, tool_idx,
                   request_messages, token_count, events, model_calls, requests,
                   text_answers, log_at_start, varied>>

\* Lines 163-200: the answer carries tool calls: the assistant message is
\* saved and appended to the running list.
HandleToolCalls ==
    /\ pc = "awaiting_model"
    /\ \E r \in AllowedAnswers :
        /\ r.tool_calls # <<>>
        /\ response' = r
        /\ log' = Append(log, ToolCallsMsg(r.content, CallIdsOf(r)))
        /\ assistant_message' = ToolCallsMsg(r.content, CallIdsOf(r))
        /\ messages_for_llm' = Append(messages_for_llm, ToolCallsMsg(r.content, CallIdsOf(r)))
    /\ tool_idx' = 1
    /\ varied' = IF varied < MaxVaried THEN varied + 1 ELSE varied
    /\ pc' = "tools"
    /\ UNCHANGED <<wvars, pvars, hvars, mvars, lvars, qvars, sink, dispatch, tool_runtime, conv_max_tokens, conv_max_messages, iteration, user_message,
                   request_messages, token_count, outcome, events, model_calls,
                   requests, text_answers, log_at_start>>

\* Lines 252-277 and 286-300: an answer without tool calls and with content:
\* it is saved as the final assistant message, and the request succeeds.
HandleFinal ==
    /\ pc = "awaiting_model"
    /\ \E r \in AllowedAnswers :
        /\ r.tool_calls = <<>>
        /\ HasContent(r.content)
        /\ response' = r
        /\ text_answers' = Append(text_answers, r.content)
        /\ log' = Append(log, AssistantMsg(r.content))
        /\ assistant_message' = AssistantMsg(r.content)
    /\ outcome' = "success"
    /\ varied' = IF varied < MaxVaried THEN varied + 1 ELSE varied
    /\ pc' = "idle"
    /\ UNCHANGED <<wvars, pvars, hvars, mvars, lvars, qvars, sink, dispatch, tool_runtime, conv_max_tokens, conv_max_messages, messages_for_llm,
                   iteration, user_message, tool_idx, request_messages, token_count,
                   events, model_calls, requests, log_at_start>>

\* Lines 278-284: an answer without tool calls and without content: an empty
\* assistant message goes to the running list, and the loop goes on.
HandleEmpty ==
    /\ pc = "awaiting_model"
    /\ \E r \in AllowedAnswers :
        /\ r.tool_calls = <<>>
        /\ ~HasContent(r.content)
        /\ response' = r
        /\ text_answers' = Append(text_answers, r.content)
    /\ messages_for_llm' = Append(messages_for_llm, AssistantMsg(""))
    /\ varied' = IF varied < MaxVaried THEN varied + 1 ELSE varied
    /\ pc' = "loop"
    /\ UNCHANGED <<wvars, pvars, hvars, mvars, lvars, qvars, sink, dispatch, tool_runtime, conv_max_tokens, conv_max_messages, log, iteration,
                   assistant_message, user_message, tool_idx, request_messages,
                   token_count, outcome, events, model_calls, requests, log_at_start>>

\* A completion call that raised and is issued again by the loop.
ModelRaisesRetried ==
    /\ pc = "awaiting_model"
    /\ pc' = "loop"
    /\ UNCHANGED <<wvars, pvars, hvars, mvars, lvars, qvars, sink, dispatch, tool_runtime, conv_max_tokens, conv_max_messages, log, messages_for_llm,
                   iteration, assistant_message, user_message, response, tool_idx,
                   request_messages, token_count, outcome, events, model_calls,
                   requests, text_answers, log_at_start, varied>>

\* Lines 151 and 304-308: the completion call raises.
ModelRaises ==
    /\ pc = "awaiting_model"
    /\ outcome' = "error_500"
    /\ pc' = "idle"
    /\ UNCHANGED <<wvars, pvars, hvars, mvars, lvars, qvars, sink, dispatch, tool_runtime, conv_max_tokens, conv_max_messages, log, messages_for_llm,
                   iteration, assistant_message, user_message, response, tool_idx,
                   request_messages, token_count, events, model_calls, requests,
                   text_answers, log_at_start, varied>>

\* All tool calls of the answer issued together, asyncio.gather fashion, and
\* their tool messages saved when all have returned.
ExecToolsGathered ==
    /\ pc = "tools"
    /\ tool_idx = 1
    /\ \A k \in 1..Len(response.tool_calls) :
           AwaitsRuntime(response.tool_calls[k]) => tool_runtime = "answering"
    /\ LET n == Len(response.tool_calls)
           x == [k \in 1..n |-> execute_single_tool_call(response.tool_calls[k])]
           ms == [k \in 1..n |-> ToolMsg(x[k].result, response.tool_calls[k].id,
                                         response.tool_calls[k].name)]
       IN  /\ events' = x[n].events
           /\ dispatch' = Dispatch(x[n].invoked, x[n].sent, x[n].tool_args,
                                   sink = "failing" /\ x[n].events # <<>>)
           /\ IF \E k \in 1..n : x[k].raised THEN
                  /\ outcome' = "error_500"
                  /\ pc' = "idle"
                  /\ UNCHANGED <<log, messages_for_llm, tool_idx, request_messages>>
              ELSE
                  /\ log' = log \o ms
                  /\ messages_for_llm' = messages_for_llm \o ms
                  /\ tool_idx' = n + 1
                  /\ request_messages' = <<SystemMsg("sys")>> \o messages_for_llm \o ms
                  /\ pc' = "loop"
                  /\ UNCHANGED outcome
    /\ UNCHANGED <<wvars, pvars, hvars, mvars, lvars, qvars, sink, tool_runtime, conv_max_tokens, conv_max_messages, iteration,
                   assistant_message, user_message, response, token_count,
                   model_calls, requests, text_answers, log_at_start, varied>>

\* Lines 203-250: the next tool call of the answer is executed and its tool
\* message saved and appended; after the last one request_params is updated
\* and the loop goes on. A call that raises ends the request (lines 304-308).
\* MCPServerManager.call_server_tool awaits client.call_tool with nothing
\* else to end the await: the step happens when the runtime answers.
ExecTool ==
    /\ pc = "tools"
    /\ tool_idx <= Len(response.tool_calls)
    /\ AwaitsRuntime(response.tool_calls[tool_idx]) => tool_runtime = "answering"
    /\ LET tool_call == response.tool_calls[tool_idx]
           x == execute_single_tool_call(tool_call)
           m == ToolMsg(x.result, tool_call.id, tool_call.name)
       IN  /\ events' = x.events
           /\ dispatch' = Dispatch(x.invoked, x.sent, x.tool_args,
                                   sink = "failing" /\ x.events # <<>>)
           /\ IF x.raised \/ (x.events # <<>> /\ emit_propagates(sink)) THEN
                  /\ outcome' = "error_500"
                  /\ pc' = "idle"
                  /\ UNCHANGED <<log, messages_for_llm, tool_idx, request_messages>>
              ELSE
                  /\ log' = Append(log, m)
                  /\ messages_for_llm' = Append(messages_for_llm, m)
                  /\ tool_idx' = tool_idx + 1
                  /\ IF tool_idx = Len(response.tool_calls)
                     THEN /\ request_messages' =
                               <<SystemMsg("sys")>> \o Append(messages_for_llm, m)
                          /\ pc' = "loop"
                     ELSE /\ UNCHANGED request_messages
                          /\ pc' = "tools"
                  /\ UNCHANGED outcome
    /\ UNCHANGED <<wvars, pvars, hvars, mvars, lvars, qvars, sink, tool_runtime, conv_max_tokens, conv_max_messages, iteration,
                   assistant_message, user_message, response, token_count,
                   model_calls, requests, text_answers, log_at_start, varied>>

ModelReturns == HandleToolCalls \/ HandleFinal \/ HandleEmpty \/ ModelRaises

Next == StartChat \/ ChatNotFound \/ CallModel \/ LoopExit \/ ModelReturns \/ ExecTool

Spec == Init /\ [][Next]_vars

\* ENABLED <<CallModel>>_vars, written out: CallModel has no other guard, and
\* it always changes iteration.
CallModelEnabled == pc = "loop" /\ LoopGuard(iteration)

\* WF_vars(CallModel), with its enabling condition written out.
CallModelFair == []<>(~CallModelEnabled) \/ []<><<CallModel>>_vars

\* Every model call and every tool call returns, and the handler runs on: it
\* is a single coroutine that nothing but its own awaits can hold up.
LiveSpec ==
    Spec /\ CallModelFair /\ WF_vars(LoopExit) /\ WF_vars(ModelReturns)
         /\ WF_vars(ExecTool)

-----------------------------------------------------------------------------
(* The chat endpoint with tool servers that may stop answering: StallSpec   *)

\* A tool server stops answering: the subprocess behind the FastMCP client
\* hangs.
RuntimeStops ==
    /\ tool_runtime = "answering"
    /\ tool_runtime' = "silent"
    /\ UNCHANGED <<wvars, pvars, hvars, mvars, lvars, qvars, sink, dispatch, conv_max_tokens, conv_max_messages, log, pc,
                   messages_for_llm, iteration, assistant_message, user_message,
                   response, tool_idx, request_messages, token_count, outcome,
                   events, model_calls, requests, text_answers, log_at_start,
                   varied>>

StallNext == Next \/ RuntimeStops

\* The handler runs on whenever the call it awaits has returned.
StallSpec ==
    Init /\ [][StallNext]_vars /\ CallModelFair /\ WF_vars(LoopExit)
         /\ WF_vars(ModelReturns) /\ WF_vars(ExecTool)

------------------------------------------------------------------------------
(* The chat endpoint with an SSE service that may fail: SinkSpec            *)

\* The SSE service starts to fail: get_local_sse_service or every emit raises.
\* Only execute_single_tool_call reads the service, so the failure is taken
\* to start when a tool call is about to run: started earlier, it is seen
\* at the same emit.
SinkFails ==
    /\ sink = "up"
    /\ pc = "tools"
    /\ sink' = "failing"
    /\ UNCHANGED <<wvars, pvars, hvars, mvars, lvars, qvars, dispatch, tool_runtime, conv_max_tokens,
                   conv_max_messages, log, pc, messages_for_llm, iteration,
                   assistant_message, user_message, response, tool_idx,
                   request_messages, token_count, outcome, events, model_calls,
                   requests, text_answers, log_at_start, varied>>

SinkNext == Next \/ SinkFails

SinkSpec == Init /\ [][SinkNext]_vars

------------------------------------------------------------------------------
(* The chat endpoint with requests that may be cancelled: CancelSpec       *)

\* An except clause that catches every exception, BaseException included.
caught_by_bare_except(exc) == TRUE

\* Whether `except Exception` catches the exception: asyncio.CancelledError
\* derives from BaseException, every error of the tool runtime, of the SSE
\* service and of the provider from Exception.
caught_by_except_Exception(exc) == exc # "CancelledError"

\* The task of the request is cancelled while it is suspended at an await of
\* the loop: inside execute_single_tool_call for the current tool call (its
\* emits and await server_manager.call_server_tool, all after json.loads),
\* or inside emit_token_update after the last tool call (request_params is
\* not updated yet there). CancelledError goes through every
\* `except Exception` of execute_single_tool_call, emit_token_update and
\* conversation_chat; were it caught, the call would give an error payload
\* and the loop would go on.
Cancel ==
    /\ outcome = "none"
    /\ outcome' = "cancelled"
    /\ \/ /\ pc = "tools"
          /\ json_loads_ok(response.tool_calls[tool_idx].arguments)
          /\ IF caught_by_except_Exception("CancelledError") THEN
                 LET tool_call == response.tool_calls[tool_idx]
                     m == ToolMsg("err", tool_call.id, tool_call.name)
                 IN  /\ events' = <<"tool_call", "tool_error">>
                     /\ log' = Append(log, m)
                     /\ messages_for_llm' = Append(messages_for_llm, m)
                     /\ tool_idx' = tool_idx + 1
                     /\ IF tool_idx = Len(response.tool_calls)
                        THEN /\ request_messages' =
                                  <<SystemMsg("sys")>> \o Append(messages_for_llm, m)
                             /\ pc' = "loop"
                        ELSE /\ UNCHANGED request_messages
                             /\ pc' = "tools"
             ELSE
                 /\ pc' = "idle"
                 /\ UNCHANGED <<events, log, messages_for_llm, tool_idx,
                                request_messages>>
       \/ /\ pc = "loop"
          /\ response.tool_calls # <<>>
          /\ tool_idx = Len(response.tool_calls) + 1
          /\ IF caught_by_except_Exception("CancelledError") THEN
                 UNCHANGED <<pc, request_messages>>
             ELSE
                 /\ pc' = "idle"
                 /\ request_messages' =
                        <<SystemMsg("sys")>>
                            \o SubSeq(messages_for_llm, 1,
                                      Len(messages_for_llm) - Len(response.tool_calls) - 1)
          /\ UNCHANGED <<events, log, messages_for_llm, tool_idx>>
    /\ UNCHANGED <<wvars, pvars, hvars, mvars, lvars, qvars, sink, dispatch, tool_runtime, conv_max_tokens,
                   conv_max_messages, iteration, assistant_message, user_message,
                   response, token_count, model_calls, requests, text_answers,
                   log_at_start, varied>>

CancelNext == Next \/ Cancel

CancelSpec == Init /\ [][CancelNext]_vars

------------------------------------------------------------------------------
(* Two chat requests running on one conversation: ConcSpec                  *)
(* conversation_chat is a coroutine: another request runs only while this   *)
(* one waits at an await (prepare_tools_for_llm, execute_single_tool_call,  *)
(* emit_token_update). The completion call and add_message are not awaited. *)

MaxConcIterations == 1

Requests == {1, 2}

\* request.content of the two requests.
ContentOf(r) == <<"q1", "q2">>[r]

\* The ids of the tool calls the model asks for in an answer to request r.
ConcCallIds(r) ==
    IF r = 1 THEN {<<"a">>, <<"a", "b">>} ELSE {<<"c">>}

\* The conversation as stored before the two requests.
ConcHistories == { <<>>, <<UserMsg("q"), AssistantMsg("old")>> }

\* add_message: the conversation is loaded, the message appended to its
\* messages, and the conversation saved, without an await in between.
add_message(stored, message) ==
    LET conversation == stored
    IN  Append(conversation, message)

ConcRequest(at, messages, calls, idx, iter, saved, result) ==
    [pc |-> at, messages_for_llm |-> messages, tool_calls |-> calls,
     tool_idx |-> idx, iteration |-> iter, saved |-> saved, outcome |-> result]

ConcInit ==
    /\ WindowIdle
    /\ ChatIdle
    /\ PrepIdle
    /\ HelperIdle
    /\ ProcIdle
    /\ LifeIdle
    /\ q_log \in ConcHistories
    /\ q_req = [r \in Requests |->
                  ConcRequest("idle", <<>>, <<>>, 1, 0, <<>>, "none")]

\* One pass of the loop from the completion call to the next await or to
\* the end of the request: the pairs of the stored log and the request
\* record it can lead to. The model answers with text, with tool calls, or
\* the call raises; after MaxConcIterations tool-calling answers it
\* answers with text.
ConcIterate(r, stored, req) ==
    LET final ==
            LET m == AssistantMsg("hi")
            IN  <<add_message(stored, m),
                  [req EXCEPT !.pc = "done", !.outcome = "success",
                              !.saved = Append(req.saved, m)]>>
        raised == <<stored, [req EXCEPT !.pc = "done", !.outcome = "error_500"]>>
        calling(ids) ==
            LET m == ToolCallsMsg(NoneV, ids)
            IN  <<add_message(stored, m),
                  [req EXCEPT !.pc = "tool", !.tool_calls = ids, !.tool_idx = 1,
                              !.iteration = req.iteration + 1,
                              !.messages_for_llm = Append(req.messages_for_llm, m),
                              !.saved = Append(req.saved, m)]>>
    IN  {final, raised}
          \cup (IF req.iteration < MaxConcIterations /\ LoopGuard(req.iteration)
                THEN {calling(ids) : ids \in ConcCallIds(r)} ELSE {})

\* The request starts: messages are prepared from the stored conversation,
\* and the request waits for prepare_tools_for_llm.
ConcBegin(r) ==
    /\ q_req[r].pc = "idle"
    /\ q_req' = [q_req EXCEPT ![r] =
                    [@ EXCEPT !.pc = "preparing_tools",
                              !.messages_for_llm =
                                  prepare_messages(q_log, ContentOf(r))]]
    /\ UNCHANGED <<q_log, wvars, cvars, pvars, hvars, mvars, lvars>>

\* prepare_tools_for_llm has returned: the user message is saved and the
\* loop runs to its first await or to the end.
ConcAfterTools(r) ==
    /\ q_req[r].pc = "preparing_tools"
    /\ LET m == UserMsg(ContentOf(r))
           req == [q_req[r] EXCEPT !.saved = Append(@, m)]
       IN  \E next \in ConcIterate(r, add_message(q_log, m), req) :
               /\ q_log' = next[1]
               /\ q_req' = [q_req EXCEPT ![r] = next[2]]
    /\ UNCHANGED <<wvars, cvars, pvars, hvars, mvars, lvars>>

\* The tool message saved by writing the list of messages the request holds
\* instead of appending to the stored conversation.
ConcToolDoneStale(r) ==
    /\ q_req[r].pc = "tool"
    /\ LET req == q_req[r]
           id == req.tool_calls[req.tool_idx]
           m == ToolMsg("res", id, "good")
           last == req.tool_idx = Len(req.tool_calls)
       IN  /\ q_log' = Append(req.messages_for_llm, m)
           /\ q_req' = [q_req EXCEPT ![r] =
                  [@ EXCEPT !.pc = IF last THEN "token_update" ELSE "tool",
                            !.tool_idx = @ + 1,
                            !.messages_for_llm = Append(@, m),
                            !.saved = Append(@, m)]]
    /\ UNCHANGED <<wvars, cvars, pvars, hvars, mvars, lvars>>

\* execute_single_tool_call has returned: the tool message is saved, and the
\* request waits for the next call or, after the last, for emit_token_update.
ConcToolDone(r) ==
    /\ q_req[r].pc = "tool"
    /\ LET req == q_req[r]
           id == req.tool_calls[req.tool_idx]
           m == ToolMsg("res", id, "good")
           last == req.tool_idx = Len(req.tool_calls)
       IN  /\ q_log' = add_message(q_log, m)
           /\ q_req' = [q_req EXCEPT ![r] =
                  [@ EXCEPT !.pc = IF last THEN "token_update" ELSE "tool",
                            !.tool_idx = @ + 1,
                            !.messages_for_llm = Append(@, m),
                            !.saved = Append(@, m)]]
    /\ UNCHANGED <<wvars, cvars, pvars, hvars, mvars, lvars>>

\* emit_token_update has returned: the next pass of the loop.
ConcAfterTokenUpdate(r) ==
    /\ q_req[r].pc = "token_update"
    /\ \E next \in ConcIterate(r, q_log, q_req[r]) :
           /\ q_log' = next[1]
           /\ q_req' = [q_req EXCEPT ![r] = next[2]]
    /\ UNCHANGED <<wvars, cvars, pvars, hvars, mvars, lvars>>

ConcNext ==
    \E r \in Requests :
        \/ ConcBegin(r)
        \/ ConcAfterTools(r)
        \/ ConcToolDone(r)
        \/ ConcAfterTokenUpdate(r)

ConcSpec == ConcInit /\ [][ConcNext]_vars

-----------------------------------------------------------------------------
(* ProcessManager: ProcSpec                                                 *)
(* Names, slugs and ids are strings, written as sequences of characters.    *)
(* _servers is the set of its ServerInfo values (one per id), _slug_to_id   *)
(* the set of its (slug, id) items, _processes the set of its keys.         *)

MaxServers == 2

Digits == <<"1", "2", "3", "4", "5", "6", "7", "8", "9">>

\* str(uuid.uuid4()): ids are fresh strings that no slug equals. They are
\* opaque, so the first one not in the table stands for the new one.
Uuids == { <<"u", Digits[k]>> : k \in 1..MaxServers }

uuid4(servers) ==
    LET free == {k \in 1..MaxServers : \A server \in servers : server.id # <<"u", Digits[k]>>}
    IN  <<"u", Digits[CHOOSE k \in free : \A j \in free : k <= j]>>

\* text.lower()
Lower(text) ==
    [k \in 1..Len(text) |-> CASE text[k] = "A" -> "a"
                               [] text[k] = "B" -> "b"
                               [] OTHER -> text[k]]

RECURSIVE DropRun(_, _)
DropRun(text, class) ==
    IF text # <<>> /\ Head(text) \in class THEN DropRun(Tail(text), class)
    ELSE text

\* re.sub(class+, replacement, text)
RECURSIVE SubRuns(_, _, _)
SubRuns(text, class, replacement) ==
    IF text = <<>> THEN <<>>
    ELSE IF Head(text) \in class
         THEN <<replacement>> \o SubRuns(DropRun(text, class), class, replacement)
         ELSE <<Head(text)>> \o SubRuns(Tail(text), class, replacement)

SlugChar(c) == c \in {"a", "b", "1", "2", "3", "4", "5", "6", "7", "8", "9", "-"}

\* re.sub(r"[^a-z0-9-]", "", text)
KeepSlugChars(text) == SelectSeq(text, SlugChar)

\* text.strip("-")
RECURSIVE StripHyphens(_)
StripHyphens(text) ==
    IF text = <<>> THEN <<>>
    ELSE IF Head(text) = "-" THEN StripHyphens(Tail(text))
    ELSE IF text[Len(text)] = "-" THEN StripHyphens(SubSeq(text, 1, Len(text) - 1))
    ELSE text

slugify(text) ==
    StripHyphens(SubRuns(KeepSlugChars(SubRuns(Lower(text), {" ", "_"}, "-")),
                         {"-"}, "-"))

\* f"{base_slug}-{counter}"
Numbered(base_slug, counter) == base_slug \o <<"-", Digits[counter]>>

SlugKeys(slug_to_id) == {item[1] : item \in slug_to_id}

RECURSIVE FirstFreeCounter(_, _, _)
FirstFreeCounter(slug_to_id, base_slug, counter) ==
    IF Numbered(base_slug, counter) \in SlugKeys(slug_to_id)
    THEN FirstFreeCounter(slug_to_id, base_slug, counter + 1)
    ELSE counter

\* _generate_unique_slug without the look into the slug table.
generate_unique_slug_unchecked(slug_to_id, base_slug) == base_slug

generate_unique_slug(slug_to_id, base_slug) ==
    IF base_slug \notin SlugKeys(slug_to_id) THEN base_slug
    ELSE Numbered(base_slug, FirstFreeCounter(slug_to_id, base_slug, 1))

ServerInfo(id, name, slug, status) ==
    [id |-> id, name |-> name, slug |-> slug, status |-> status]

\* get_server: the set holding the server found, empty for None. The key
\* is tried as an id first, then as a slug.
get_server(servers, slug_to_id, server_id_or_slug) ==
    LET by_id == {server \in servers : server.id = server_id_or_slug}
        ids == {item[2] : item \in {i \in slug_to_id : i[1] = server_id_or_slug}}
    IN  IF by_id # {} THEN by_id
        ELSE {server \in servers : server.id \in ids}

SetStatus(servers, server, status) ==
    (servers \ {server}) \cup {[server EXCEPT !.status = status]}

\* remove_server without the status check.
remove_server_any_status(servers, slug_to_id, server_id_or_slug) ==
    LET found == get_server(servers, slug_to_id, server_id_or_slug)
    IN  IF found = {}
        THEN [result |-> "False", servers |-> servers, slug_to_id |-> slug_to_id]
        ELSE LET server == CHOOSE x \in found : TRUE
             IN  [result |-> "True",
                  servers |-> {x \in servers : x.id # server.id},
                  slug_to_id |-> {item \in slug_to_id : item[1] # server.slug}]

\* remove_server: what it returns or raises, and the two tables after it.
\* del self._servers[server.id] comes before del self._slug_to_id[server.slug],
\* which raises KeyError for a slug that is not in the table.
remove_server(servers, slug_to_id, server_id_or_slug) ==
    LET found == get_server(servers, slug_to_id, server_id_or_slug)
    IN  IF found = {}
        THEN [result |-> "False", servers |-> servers, slug_to_id |-> slug_to_id]
        ELSE LET server == CHOOSE x \in found : TRUE
             IN  IF server.status \in {"running", "starting"}
                 THEN [result |-> "MCPError", servers |-> servers,
                       slug_to_id |-> slug_to_id]
                 ELSE [result |-> IF server.slug \in SlugKeys(slug_to_id)
                                  THEN "True" ELSE "KeyError",
                       servers |-> {x \in servers : x.id # server.id},
                       slug_to_id |-> {item \in slug_to_id : item[1] # server.slug}]

\* config.name and config.slug of the requests; the empty slug stands for
\* a request without one.
TestNames == { <<"A">>, <<"a">>, <<"-", "a", " ", "_", "1", "!">> }

TestSlugs == { <<>>, <<"A", "_", "_", "1">> }

\* The requests: a slug is given with one of the names only.
TestConfigs ==
    { config \in TestNames \X TestSlugs : config[2] # <<>> => config[1] = <<"a">> }

TestKeys ==
    Uuids \cup { <<"a">>, <<"a", "-", "1">>, <<"A">> }

\* How a call ended; for remove_server, with the key it was given.
Result(operation, key, result) ==
    [op |-> operation, key |-> key, result |-> result]

ProcInit ==
    /\ WindowIdle
    /\ ChatIdle
    /\ PrepIdle
    /\ HelperIdle
    /\ ProcIdle
    /\ LifeIdle
    /\ ConcIdle

\* add_server(config); at most MaxServers servers are registered.
AddServer ==
    \E config \in TestConfigs :
      LET name == config[1]
          config_slug == config[2]
      IN
        /\ IF \E server \in m_servers : server.name = name
           THEN /\ m_result' = Result("add", <<>>, "MCPError")
                /\ UNCHANGED <<m_servers, m_slug_to_id>>
           ELSE /\ Cardinality(m_servers) < MaxServers
                /\  LET server_id == uuid4(m_servers)
                        base_slug == IF config_slug # <<>> THEN slugify(config_slug)
                                     ELSE slugify(name)
                        slug == generate_unique_slug(m_slug_to_id, base_slug)
                    IN  /\ m_servers' = m_servers \cup
                               {ServerInfo(server_id, name, slug, "configured")}
                        /\ m_slug_to_id' =
                               {item \in m_slug_to_id : item[1] # slug}
                                   \cup {<<slug, server_id>>}
                        /\ m_result' = Result("add", <<>>, "ok")
        /\ UNCHANGED <<m_processes, wvars, cvars, pvars, hvars, lvars, qvars>>

\* start_server(server_id_or_slug). It has no await: the status STARTING
\* it sets is replaced by RUNNING or ERROR before it returns. Popen either
\* gives a process that runs, one that has exited at once, or raises.
StartServer ==
    \E key \in TestKeys :
        LET found == get_server(m_servers, m_slug_to_id, key)
        IN  /\ IF found = {}
               THEN /\ m_result' = Result("start", <<>>, "MCPError")
                    /\ UNCHANGED <<m_servers, m_processes>>
               ELSE LET server == CHOOSE x \in found : TRUE
                    IN  IF server.status \in {"running", "starting"}
                        THEN /\ m_result' = Result("start", <<>>, "MCPError")
                             /\ UNCHANGED <<m_servers, m_processes>>
                        ELSE \E popen \in {"runs", "exited", "raises"} :
                             IF popen = "runs"
                             THEN /\ m_servers' = SetStatus(m_servers, server, "running")
                                  /\ m_processes' = m_processes \cup {server.id}
                                  /\ m_result' = Result("start", <<>>, "ok")
                             ELSE /\ m_servers' = SetStatus(m_servers, server, "error")
                                  /\ m_processes' = m_processes \ {server.id}
                                  /\ m_result' = Result("start", <<>>, "MCPError")
            /\ UNCHANGED <<m_slug_to_id, wvars, cvars, pvars, hvars, lvars, qvars>>

\* stop_server(server_id_or_slug)
StopServer ==
    \E key \in TestKeys :
        LET found == get_server(m_servers, m_slug_to_id, key)
        IN  /\ IF found = {}
               THEN /\ m_result' = Result("stop", <<>>, "MCPError")
                    /\ UNCHANGED <<m_servers, m_processes>>
               ELSE LET server == CHOOSE x \in found : TRUE
                    IN  IF server.status \notin {"running", "starting"}
                        THEN /\ m_result' = Result("stop", <<>>, "MCPError")
                             /\ UNCHANGED <<m_servers, m_processes>>
                        ELSE IF server.id \in m_processes
                        THEN /\ m_servers' = SetStatus(m_servers, server, "stopped")
                             /\ m_processes' = m_processes \ {server.id}
                             /\ m_result' = Result("stop", <<>>, "ok")
                        ELSE /\ m_result' = Result("stop", <<>>, "ok")
                             /\ UNCHANGED <<m_servers, m_processes>>
            /\ UNCHANGED <<m_slug_to_id, wvars, cvars, pvars, hvars, lvars, qvars>>

\* remove_server(server_id_or_slug)
RemoveServer ==
    \E key \in TestKeys :
        LET r == remove_server(m_servers, m_slug_to_id, key)
        IN  /\ m_servers' = r.servers
            /\ m_slug_to_id' = r.slug_to_id
            /\ m_result' = Result("remove", key, r.result)
            /\ UNCHANGED <<m_processes, wvars, cvars, pvars, hvars, lvars, qvars>>

ProcNext == AddServer \/ StartServer \/ StopServer \/ RemoveServer

ProcSpec == ProcInit /\ [][ProcNext]_vars

------------------------------------------------------------------------------
(* lifecycle_manager: LifeSpec                                              *)
(* start_server, stop_server, remove_server and shutdown_all are coroutines *)
(* over the clients dict and the ProcessManager; each waits only at         *)
(* client.__aenter__() and client.__aexit__(), where another call can run.  *)

MaxClients == 2

Tasks == {1, 2}

\* The client objects create_client can return; None.
ClientIds == 1..MaxClients

NoClient == 0

\* The servers registered before the lifecycle calls: add_server for the
\* names "a" and "A".
LifeServers ==
    { ServerInfo(<<"u", "1">>, <<"a">>, <<"a">>, "configured"),
      ServerInfo(<<"u", "2">>, <<"A">>, <<"a", "-", "1">>, "configured") }

LifeSlugs == { <<server.slug, server.id>> : server \in LifeServers }

\* The clients dict: its items in insertion order.
in_clients(clients, server_id) ==
    \E k \in 1..Len(clients) : clients[k][1] = server_id

clients_get(clients, server_id) ==
    IF in_clients(clients, server_id)
    THEN clients[CHOOSE k \in 1..Len(clients) : clients[k][1] = server_id][2]
    ELSE NoClient

clients_set(clients, server_id, client) ==
    IF in_clients(clients, server_id)
    THEN [k \in 1..Len(clients) |->
             IF clients[k][1] = server_id THEN <<server_id, client>> ELSE clients[k]]
    ELSE Append(clients, <<server_id, client>>)

RECURSIVE clients_del(_, _)
clients_del(clients, server_id) ==
    IF clients = <<>> THEN <<>>
    ELSE IF Head(clients)[1] = server_id THEN clients_del(Tail(clients), server_id)
    ELSE <<Head(clients)>> \o clients_del(Tail(clients), server_id)

clients_keys(clients) == [k \in 1..Len(clients) |-> clients[k][1]]

has_server(servers, server_id) == \E server \in servers : server.id = server_id

\* process_manager._update_server_status(server_id, status): the server with
\* this id gets the status. A call for an id that is not registered raises;
\* the callers below test has_server first.
update_server_status(servers, server_id, status) ==
    { IF server.id = server_id THEN [server EXCEPT !.status = status] ELSE server :
          server \in servers }

\* create_client returns a new object.
FirstUnused(conn) == CHOOSE c \in ClientIds :
    conn[c] = "unused" /\ \A d \in ClientIds : d < c => conn[d] # "unused"

\* How client.__aexit__ can end: it returns, or it raises.
CloseOutcomes == {"closed", "close_failed"}

Task(operation, server_id, at, client, keys, result) ==
    [op |-> operation, server_id |-> server_id, pc |-> at, client |-> client,
     keys |-> keys, result |-> result]

\* A call has ended: the task keeps what the call was, the client it closed
\* last, and how it ended.
Ended(operation, server_id, client, result) ==
    Task(operation, server_id, "idle", client, <<>>, result)

\* No call made yet.
NoCall == Ended("none", <<>>, NoClient, "none")

\* The call of task t ends.
End(t, result) ==
    l_task' = [l_task EXCEPT ![t] =
                  Ended(l_task[t].op, l_task[t].server_id, l_task[t].client, result)]

LifeInit ==
    /\ WindowIdle
    /\ ChatIdle
    /\ PrepIdle
    /\ HelperIdle
    /\ ConcIdle
    /\ m_servers = LifeServers
    /\ m_slug_to_id = LifeSlugs
    /\ m_processes = {}
    /\ m_result = Result("none", <<>>, "none")
    /\ l_clients = <<>>
    /\ l_conn = [c \in ClientIds |-> "unused"]
    /\ l_task = [t \in Tasks |-> NoCall]

LifeFrame == UNCHANGED <<m_processes, m_result, wvars, cvars, pvars, hvars, qvars>>

\* start_server(server, ...) up to await client.__aenter__().
LifeStart(t) ==
    /\ l_task[t].pc = "idle"
    /\ \E server \in m_servers :
         IF in_clients(l_clients, server.id)
         THEN /\ l_task' = [l_task EXCEPT ![t] =
                     Ended("start", server.id, NoClient, "returned")]
              /\ UNCHANGED <<m_servers, m_slug_to_id, l_clients, l_conn>>
         ELSE /\ \E c \in ClientIds : l_conn[c] = "unused"
              /\ \E created \in BOOLEAN :
                   IF created
                   THEN LET client == FirstUnused(l_conn)
                        IN  /\ m_servers' = update_server_status(m_servers, server.id, "starting")
                            /\ l_conn' = [l_conn EXCEPT ![client] = "created"]
                            /\ l_task' = [l_task EXCEPT ![t] =
                                   Task("start", server.id, "connecting", client, <<>>, "none")]
                            /\ UNCHANGED <<m_slug_to_id, l_clients>>
                   ELSE /\ m_servers' = update_server_status(m_servers, server.id, "error")
                        /\ l_task' = [l_task EXCEPT ![t] =
                               Ended("start", server.id, NoClient, "MCPError")]
                        /\ UNCHANGED <<m_slug_to_id, l_clients, l_conn>>
    /\ LifeFrame

\* start_server from the return of client.__aenter__(): the client is
\* stored and the status set to running; when connecting raised, or the
\* status update raises, the except clause sets the status to error and
\* closes the client stored under the server id, if there is one.
LifeConnected(t) ==
    /\ l_task[t].pc = "connecting"
    /\ LET id == l_task[t].server_id
           client == l_task[t].client
       IN  \E connected \in BOOLEAN :
             IF connected
             THEN /\ l_conn' = [l_conn EXCEPT ![client] = "connected"]
                  /\ l_clients' = clients_set(l_clients, id, client)
                  /\ IF has_server(m_servers, id)
                     THEN /\ m_servers' = update_server_status(m_servers, id, "running")
                          /\ End(t, "returned")
                     ELSE /\ m_servers' = m_servers
                          /\ End(t, "raised")
             ELSE /\ l_conn' = [l_conn EXCEPT ![client] = "connect_failed"]
                  /\ l_clients' = l_clients
                  /\ IF ~has_server(m_servers, id)
                     THEN /\ m_servers' = m_servers
                          /\ End(t, "raised")
                     ELSE /\ m_servers' = update_server_status(m_servers, id, "error")
                          /\ IF in_clients(l_clients, id)
                             THEN l_task' = [l_task EXCEPT ![t] =
                                      Task("start", id, "cleanup",
                                           clients_get(l_clients, id), <<>>, "none")]
                             ELSE End(t, "MCPError")
    /\ UNCHANGED m_slug_to_id
    /\ LifeFrame

\* start_server's except clause from the return of client_instance.__aexit__:
\* the entry is deleted and MCPError raised.
LifeCleanupDone(t) ==
    /\ l_task[t].pc = "cleanup"
    /\ LET id == l_task[t].server_id
       IN  \E closed_how \in CloseOutcomes :
             /\ l_conn' = [l_conn EXCEPT ![l_task[t].client] = closed_how]
             /\ IF in_clients(l_clients, id)
                THEN /\ l_clients' = clients_del(l_clients, id)
                     /\ End(t, "MCPError")
                ELSE /\ l_clients' = l_clients
                     /\ End(t, "KeyError")
    /\ UNCHANGED <<m_servers, m_slug_to_id>>
    /\ LifeFrame

\* stop_server(server, ...) up to await client.__aexit__(), or to its end
\* for a server without a client.
LifeStop(t) ==
    /\ l_task[t].pc = "idle"
    /\ \E server \in m_servers :
         LET stopping == update_server_status(m_servers, server.id, "stopping")
             client == clients_get(l_clients, server.id)
         IN  IF client # NoClient
             THEN /\ m_servers' = stopping
                  /\ l_task' = [l_task EXCEPT ![t] =
                         Task("stop", server.id, "closing", client, <<>>, "none")]
             ELSE /\ m_servers' = update_server_status(stopping, server.id, "stopped")
                  /\ l_task' = [l_task EXCEPT ![t] =
                         Ended("stop", server.id, NoClient, "returned")]
    /\ UNCHANGED <<m_slug_to_id, l_clients, l_conn>>
    /\ LifeFrame

\* stop_server that leaves the entry in the clients dict when closing raised.
LifeStopClosedKeepOnError(t) ==
    /\ l_task[t].pc = "closing"
    /\ LET id == l_task[t].server_id
       IN  \E closed_how \in CloseOutcomes :
             /\ l_conn' = [l_conn EXCEPT ![l_task[t].client] = closed_how]
             /\ IF ~in_clients(l_clients, id)
                THEN /\ UNCHANGED <<l_clients, m_servers>>
                     /\ End(t, "KeyError")
                ELSE /\ l_clients' = IF closed_how = "closed"
                                     THEN clients_del(l_clients, id) ELSE l_clients
                     /\ IF has_server(m_servers, id)
                        THEN /\ m_servers' = update_server_status(m_servers, id, "stopped")
                             /\ End(t, "returned")
                        ELSE /\ m_servers' = m_servers
                             /\ End(t, "raised")
    /\ UNCHANGED m_slug_to_id
    /\ LifeFrame

\* stop_server from the return of client.__aexit__(): whether closing
\* raised or not, the entry is deleted (KeyError when it is gone) and the
\* status set to stopped.
LifeStopClosed(t) ==
    /\ l_task[t].pc = "closing"
    /\ LET id == l_task[t].server_id
       IN  \E closed_how \in CloseOutcomes :
             /\ l_conn' = [l_conn EXCEPT ![l_task[t].client] = closed_how]
             /\ IF ~in_clients(l_clients, id)
                THEN /\ UNCHANGED <<l_clients, m_servers>>
                     /\ End(t, "KeyError")
                ELSE /\ l_clients' = clients_del(l_clients, id)
                     /\ IF has_server(m_servers, id)
                        THEN /\ m_servers' = update_server_status(m_servers, id, "stopped")
                             /\ End(t, "returned")
                        ELSE /\ m_servers' = m_servers
                             /\ End(t, "raised")
    /\ UNCHANGED m_slug_to_id
    /\ LifeFrame

\* return await process_manager.remove_server(server.id)
LifeRemoveFromManager(t, server_id, client) ==
    LET r == remove_server(m_servers, m_slug_to_id, server_id)
    IN  /\ m_servers' = r.servers
        /\ m_slug_to_id' = r.slug_to_id
        /\ l_task' = [l_task EXCEPT ![t] =
               Ended("remove", server_id, client, r.result)]

\* remove_server(server, ...) up to await client.__aexit__(), or to its end
\* for a server without a client.
LifeRemove(t) ==
    /\ l_task[t].pc = "idle"
    /\ \E server \in m_servers :
         LET client == clients_get(l_clients, server.id)
         IN  IF client # NoClient
             THEN /\ l_task' = [l_task EXCEPT ![t] =
                         Task("remove", server.id, "removing", client, <<>>, "none")]
                  /\ UNCHANGED <<m_servers, m_slug_to_id>>
             ELSE LifeRemoveFromManager(t, server.id, NoClient)
    /\ UNCHANGED <<l_clients, l_conn>>
    /\ LifeFrame

\* remove_server from the return of client.__aexit__().
LifeRemoveClosed(t) ==
    /\ l_task[t].pc = "removing"
    /\ LET id == l_task[t].server_id
       IN  \E closed_how \in CloseOutcomes :
             /\ l_conn' = [l_conn EXCEPT ![l_task[t].client] = closed_how]
             /\ IF ~in_clients(l_clients, id)
                THEN /\ UNCHANGED <<l_clients, m_servers, m_slug_to_id>>
                     /\ End(t, "KeyError")
                ELSE /\ l_clients' = clients_del(l_clients, id)
                     /\ LifeRemoveFromManager(t, id, l_task[t].client)
    /\ LifeFrame

\* The statuses after shutdown_all's last loop: running becomes stopped.
StopRunning(servers) ==
    { IF server.status = "running" THEN [server EXCEPT !.status = "stopped"] ELSE server :
          server \in servers }

\* shutdown_all that leaves the statuses as they are.
ShutdownLoopNoStatus(t, keys) ==
    LET with_client == {k \in 1..Len(keys) : in_clients(l_clients, keys[k])}
    IN  IF with_client # {}
        THEN LET k == CHOOSE i \in with_client : \A j \in with_client : i <= j
             IN  /\ l_task' = [l_task EXCEPT ![t] =
                        Task("shutdown", <<>>, "shutdown",
                             clients_get(l_clients, keys[k]),
                             SubSeq(keys, k + 1, Len(keys)), "none")]
                 /\ UNCHANGED <<l_clients, m_servers>>
        ELSE /\ l_clients' = <<>>
             /\ m_servers' = m_servers
             /\ l_task' = [l_task EXCEPT ![t] =
                    Ended("shutdown", <<>>,
                          IF l_task[t].pc = "shutdown" THEN l_task[t].client
                          ELSE NoClient, "returned")]

\* shutdown_all's loop over the keys left: up to the next await
\* client.__aexit__(), or, after the last key, clients.clear() and the
\* status updates.
ShutdownLoop(t, keys) ==
    LET with_client == {k \in 1..Len(keys) : in_clients(l_clients, keys[k])}
    IN  IF with_client # {}
        THEN LET k == CHOOSE i \in with_client : \A j \in with_client : i <= j
             IN  /\ l_task' = [l_task EXCEPT ![t] =
                        Task("shutdown", <<>>, "shutdown",
                             clients_get(l_clients, keys[k]),
                             SubSeq(keys, k + 1, Len(keys)), "none")]
                 /\ UNCHANGED <<l_clients, m_servers>>
        ELSE /\ l_clients' = <<>>
             /\ m_servers' = StopRunning(m_servers)
             /\ l_task' = [l_task EXCEPT ![t] =
                    Ended("shutdown", <<>>,
                          IF l_task[t].pc = "shutdown" THEN l_task[t].client
                          ELSE NoClient, "returned")]

\* shutdown_all(...) up to the first await.
LifeShutdown(t) ==
    /\ l_task[t].pc = "idle"
    /\ ShutdownLoop(t, clients_keys(l_clients))
    /\ UNCHANGED <<m_slug_to_id, l_conn>>
    /\ LifeFrame

\* shutdown_all from the return of client.__aexit__().
LifeShutdownClosed(t) ==
    /\ l_task[t].pc = "shutdown"
    /\ \E closed_how \in CloseOutcomes :
           l_conn' = [l_conn EXCEPT ![l_task[t].client] = closed_how]
    /\ ShutdownLoop(t, l_task[t].keys)
    /\ UNCHANGED m_slug_to_id
    /\ LifeFrame

LifeNext ==
    \E t \in Tasks :
        \/ LifeStart(t)
        \/ LifeConnected(t)
        \/ LifeCleanupDone(t)
        \/ LifeStop(t)
        \/ LifeStopClosed(t)
        \/ LifeRemove(t)
        \/ LifeRemoveClosed(t)
        \/ LifeShutdown(t)
        \/ LifeShutdownClosed(t)

LifeSpec == LifeInit /\ [][LifeNext]_vars

-----------------------------------------------------------------------------
(* inject_required_context_arguments and filter_context_arguments called   *)
(* on their own: HelperSpec                                                 *)

\* modified_schema["properties"][name] = {"type": "string", ...} for the two
\* context arguments.
InjectedProperties(properties) ==
    {kv \in properties : kv[1] \notin {"tool_usage_reason", "error_handling_plan"}}
        \cup {<<"tool_usage_reason", "string">>, <<"error_handling_plan", "string">>}

\* if name not in required: required.append(name)
AppendIfMissing(required, name) ==
    IF \E k \in 1..Len(required) : required[k] = name THEN required
    ELSE Append(required, name)

InjectedRequired(required) ==
    AppendIfMissing(AppendIfMissing(required, "tool_usage_reason"),
                    "error_handling_plan")

\* inject_required_context_arguments: the schema it returns, and the object
\* it was given as it is after the call. input_schema.copy() is a shallow
\* copy: the dict under "properties" and the list under "required" of the
\* copy are the objects of the input, and the item assignments and appends
\* are made on them. None and the empty dict are falsy: a new schema is made.
inject_required_context_arguments(input_schema) ==
    LET falsy == \/ input_schema.is_none
                 \/ /\ input_schema.keys = {}
                    /\ ~input_schema.has_properties
                    /\ ~input_schema.has_required
        copy == IF falsy THEN Schema(FALSE, {"type"}, TRUE, {}, FALSE, <<>>)
                ELSE input_schema
        shared_properties == ~falsy /\ input_schema.has_properties
        shared_required == ~falsy /\ input_schema.has_required
        properties == InjectedProperties(IF copy.has_properties
                                         THEN copy.properties ELSE {})
        required == InjectedRequired(IF copy.has_required
                                     THEN copy.required ELSE <<>>)
    IN  [returned |-> Schema(FALSE, copy.keys, TRUE, properties, TRUE, required),
         input_schema |->
            Schema(input_schema.is_none, input_schema.keys,
                   input_schema.has_properties,
                   IF shared_properties THEN properties ELSE input_schema.properties,
                   input_schema.has_required,
                   IF shared_required THEN required ELSE input_schema.required)]

\* Schemas as servers declare them: with and without a "type" key, with and
\* without "properties" and "required", some naming the context arguments
\* already; None for a tool without a schema.
TestSchemas ==
    {NoSchema}
      \cup { Schema(FALSE, keys, TRUE, properties, TRUE, required) :
                keys \in {{}, {"type"}},
                properties \in { {}, {<<"x", "integer">>},
                                 {<<"tool_usage_reason", "integer">>},
                                 {<<"x", "integer">>, <<"tool_usage_reason", "string">>,
                                  <<"error_handling_plan", "string">>} },
                required \in {<<>>, <<"x">>, <<"tool_usage_reason">>} }
      \cup { Schema(FALSE, keys, FALSE, {}, TRUE, required) :
                keys \in {{}, {"type"}},
                required \in {<<>>, <<"x">>, <<"tool_usage_reason">>} }
      \cup { Schema(FALSE, keys, TRUE, properties, FALSE, <<>>) :
                keys \in {{}, {"type"}},
                properties \in { {}, {<<"x", "integer">>},
                                 {<<"tool_usage_reason", "integer">>} } }
      \cup { Schema(FALSE, keys, FALSE, {}, FALSE, <<>>) : keys \in {{}, {"type"}} }

\* Argument dicts as json.loads returns them.
TestArguments ==
    SUBSET {<<"x", "1">>, <<"tool_usage_reason", "why">>, <<"error_handling_plan", "plan">>}

HelperInit ==
    /\ WindowIdle
    /\ ChatIdle
    /\ PrepIdle
    /\ ProcIdle
    /\ LifeIdle
    /\ ConcIdle
    /\ h_input \in TestSchemas
    /\ h_schema = h_input
    /\ h_modified = NoSchema
    /\ h_args \in TestArguments
    /\ h_args_now = h_args
    /\ h_filtered = {}
    /\ h_op = "none"

\* modified_schema = inject_required_context_arguments(input_schema)
CallInject ==
    /\ h_op = "none"
    /\ LET r == inject_required_context_arguments(h_input)
       IN  /\ h_modified' = r.returned
           /\ h_schema' = r.input_schema
    /\ h_op' = "inject"
    /\ UNCHANGED <<h_input, h_args, h_args_now, h_filtered, wvars, cvars, pvars, mvars, lvars, qvars>>

\* filtered_args = filter_context_arguments(arguments)
CallFilter ==
    /\ h_op = "none"
    /\ LET r == filter_context_arguments(h_args)
       IN  /\ h_filtered' = r.returned
           /\ h_args_now' = r.arguments
    /\ h_op' = "filter"
    /\ UNCHANGED <<h_input, h_schema, h_modified, h_args, wvars, cvars, pvars, mvars, lvars, qvars>>

HelperNext == CallInject \/ CallFilter

HelperSpec == HelperInit /\ [][HelperNext]_vars

------------------------------------------------------------------------------
(* prepare_messages and prepare_tools_for_llm called on their own: PrepSpec *)

\* A server as the server manager answers for it: status "absent" when
\* get_server returns None; tools are the names get_server_tools returns,
\* and list_fails says that it raises instead.
Server(status, tools, list_fails) ==
    [status |-> status, tools |-> tools, list_fails |-> list_fails]

EnabledTool(server_id, tool_name) == [server_id |-> server_id, tool_name |-> tool_name]

\* tool_server_mapping[name] = server_id
MapSet(mapping, name, server_id) ==
    [n \in (DOMAIN mapping) \cup {name} |-> IF n = name THEN server_id ELSE mapping[n]]

\* One iteration that also takes the tools of a server that is not running.
ToolsStepAnyStatus(servers, enabled_tool, st) ==
    LET server == servers[enabled_tool.server_id] IN
    IF server.status = "absent" THEN st
    ELSE IF enabled_tool.tool_name \in Range(server.tools) THEN
        PreparedTools(Append(st.tools_for_llm, enabled_tool.tool_name),
                      MapSet(st.mapping, enabled_tool.tool_name, enabled_tool.server_id))
    ELSE st

\* One iteration of the loop over enabled_tools.
ToolsStep(servers, enabled_tool, st) ==
    LET server == servers[enabled_tool.server_id] IN
    IF server.status # "running" THEN st
    ELSE IF server.list_fails THEN st
    ELSE IF enabled_tool.tool_name \in Range(server.tools) THEN
        PreparedTools(Append(st.tools_for_llm, enabled_tool.tool_name),
                      MapSet(st.mapping, enabled_tool.tool_name, enabled_tool.server_id))
    ELSE st

RECURSIVE ToolsFrom(_, _, _, _)
ToolsFrom(servers, enabled_tools, i, st) ==
    IF i > Len(enabled_tools) THEN st
    ELSE ToolsFrom(servers, enabled_tools, i + 1,
                   ToolsStep(servers, enabled_tools[i], st))

prepare_tools_for_llm(enabled_tools, servers) ==
    IF enabled_tools = <<>> THEN NoTools
    ELSE ToolsFrom(servers, enabled_tools, 1, NoTools)

MaxEnabled == 3

ServerIds == {"s1", "s2"}

ToolNames == {"t", "u"}

\* A server that is not known, one that is stopped, one whose tool listing
\* fails, and two that list their tools.
TestServerStates ==
    { Server("absent", <<>>, FALSE), Server("stopped", <<"t">>, FALSE),
      Server("running", <<"t">>, TRUE), Server("running", <<"t">>, FALSE),
      Server("running", <<"u", "t">>, FALSE) }

TestServers == [ServerIds -> TestServerStates]

TestEnabledTools ==
    UNION {[1..n -> {EnabledTool(sid, t) : sid \in ServerIds, t \in ToolNames}] :
           n \in 0..MaxEnabled}

TestHistories ==
    { <<>>,
      <<UserMsg("q"), AssistantMsg("hi")>>,
      <<UserMsg("q"), ToolCallsMsg(NoneV, <<"a">>), ToolMsg("res", "a", "t"),
        AssistantMsg("hi")>> }

TestConversations ==
    {NoConversation}
        \cup {Conversation(TRUE, h, e) : h \in TestHistories, e \in TestEnabledTools}

PrepInit ==
    /\ in_messages = <<>>
    /\ in_max_tokens = NoneInt
    /\ in_max_messages = NoneInt
    /\ op = "none"
    /\ prev_messages = <<>>
    /\ out_messages = <<>>
    /\ out_tokens = 0
    /\ ChatIdle
    /\ HelperIdle
    /\ ProcIdle
    /\ LifeIdle
    /\ ConcIdle
    /\ p_conv \in TestConversations
    /\ p_servers \in TestServers
    /\ p_op = "none"
    /\ p_prepared = Prepared(FALSE, <<>>, <<>>)
    /\ p_tools = NoTools

\* prepare_messages(conversation_id, "q")
CallPrepareMessages ==
    /\ p_op = "none"
    /\ p_prepared' = prepare_messages_for(p_conv, "q")
    /\ p_op' = "messages"
    /\ UNCHANGED <<p_conv, p_servers, p_tools, wvars, cvars, hvars, mvars, lvars, qvars>>

\* prepare_tools_for_llm(enabled_tools, server_manager)
CallPrepareTools ==
    /\ p_op = "none"
    /\ p_conv.found
    /\ p_tools' = prepare_tools_for_llm(p_conv.enabled_tools, p_servers)
    /\ p_op' = "tools"
    /\ UNCHANGED <<p_conv, p_servers, p_prepared, wvars, cvars, hvars, mvars, lvars, qvars>>

PrepNext == CallPrepareMessages \/ CallPrepareTools \/ ChatNotFound

PrepSpec == PrepInit /\ [][PrepNext]_vars

-----------------------------------------------------------------------------
(* Claims about TokenCounter, under WindowSpec *)

\* In s, nothing that closes a tool-call group stands strictly between i and j:
\* no user message and no assistant message without tool calls.
OpenBetween(s, i, j) ==
    \A k \in (i + 1)..(j - 1) :
        ~(s[k].role = "user" \/ (s[k].role = "assistant" /\ s[k].tool_calls = <<>>))

\* Every assistant message with tool calls of s is followed, before the next
\* user or plain assistant message and before the end, by a tool message for
\* each of its call ids.
AllCallsAnswered(s) ==
    \A i \in 1..Len(s) :
        HasToolCalls(s[i]) =>
            \A id \in Range(s[i].tool_calls) :
                \E j \in (i + 1)..Len(s) :
                    /\ s[j].role = "tool"
                    /\ s[j].tool_call_id = id
                    /\ OpenBetween(s, i, j)

\* C1: the sequence apply_rolling_window returns holds no split tool-call
\* group, for every input and every max_tokens / max_messages.
C1_WindowKeepsGroupsWhole ==
    op = "window" => AllCallsAnswered(out_messages)

\* C2: repair is idempotent: repair(repair(m)) = repair(m).
C2_RepairIdempotent ==
    op = "repair2" => out_messages = prev_messages

\* In the input, tool message j answers the assistant message i: i is the
\* assistant message with tool calls whose calls are pending when j is
\* scanned, and j carries one of its ids.
Answers(s, i, j) ==
    /\ i < j
    /\ HasToolCalls(s[i])
    /\ s[j].role = "tool"
    /\ s[j].tool_call_id \in Range(s[i].tool_calls)
    /\ \A k \in (i + 1)..(j - 1) : s[k].role \notin {"user", "assistant"}

\* C3: repair removes whole groups only: when an assistant message with tool
\* calls is discarded, no tool response of its group survives; and
\* assistant{a,b}, tool(a), user gives exactly [user].
C3_RepairRemovesWholeGroups ==
    op = "repair" =>
        /\ \A i \in 1..Len(in_messages) :
            (HasToolCalls(in_messages[i]) /\ i \notin Range(KeptIndices(in_messages)))
                => \A j \in Range(KeptIndices(in_messages)) : ~Answers(in_messages, i, j)
        /\ in_messages = <<ToolCallsMsg(NoneV, <<"a", "b">>), ToolMsg("res", "a", "t"),
                           UserMsg("q")>>
                => out_messages = <<UserMsg("q")>>

\* C4: in the output of repair every tool message carries an id of the
\* nearest preceding assistant message with tool calls of the output, with no
\* user or plain assistant message between the two.
C4_NoOrphanToolMessage ==
    op = "repair" =>
        \A j \in 1..Len(out_messages) :
            out_messages[j].role = "tool" =>
                \E i \in 1..(j - 1) :
                    /\ HasToolCalls(out_messages[i])
                    /\ \A k \in (i + 1)..(j - 1) : ~HasToolCalls(out_messages[k])
                    /\ out_messages[j].tool_call_id \in Range(out_messages[i].tool_calls)
                    /\ OpenBetween(out_messages, i, j)

-----------------------------------------------------------------------------
(* Claims about the chat endpoint, under Spec and LiveSpec *)

\* Every tool message of s carries an id of the nearest preceding assistant
\* message with tool calls, with no user or plain assistant message between.
NoOrphanTool(s) ==
    \A j \in 1..Len(s) :
        s[j].role = "tool" =>
            \E i \in 1..(j - 1) :
                /\ HasToolCalls(s[i])
                /\ \A k \in (i + 1)..(j - 1) : ~HasToolCalls(s[k])
                /\ s[j].tool_call_id \in Range(s[i].tool_calls)
                /\ OpenBetween(s, i, j)

\* The central invariant of a message list given to the model provider.
ValidForProvider(s) == AllCallsAnswered(s) /\ NoOrphanTool(s)

\* C5: in every iteration, whatever the stored history and the limits of the
\* conversation, the message list of the completion call satisfies the
\* central invariant.
C5_CompletionInputValid ==
    pc = "awaiting_model" => ValidForProvider(request_messages)

\* The request has returned a success response.
Succeeded == pc = "idle" /\ outcome = "success"

\* C6: a request in which the model never gave a non-empty text answer free
\* of tool calls does not end with a success response.
C6_ExhaustedLoopFails ==
    Succeeded => \E k \in 1..Len(text_answers) : text_answers[k] \notin {NoneV, ""}

\* C7: whatever the model answers, the loop of a request terminates, and the
\* request issues at most max_iterations (50) completion calls.
C7_LoopTerminates ==
    /\ [](model_calls <= max_iterations)
    /\ (pc # "idle") ~> (pc = "idle")

\* A request that ended after the model gave an empty answer in every one of
\* its max_iterations iterations.
C7_Witness ==
    /\ pc = "idle"
    /\ outcome = "error_500"
    /\ model_calls = max_iterations
    /\ Len(text_answers) = max_iterations

\* The messages this request has appended to the log.
Appended == SubSeq(log, log_at_start + 1, Len(log))

\* From position i on, s is a run of tool-call groups (an assistant message
\* with tool calls, then one tool message per call, in call order) followed
\* by exactly one plain assistant message, the last of s.
RECURSIVE GroupsThenFinal(_, _)
GroupsThenFinal(s, i) ==
    IF i > Len(s) THEN FALSE
    ELSE IF HasToolCalls(s[i]) THEN
        LET n == Len(s[i].tool_calls) IN
        /\ i + n <= Len(s)
        /\ \A k \in 1..n :
            /\ s[i + k].role = "tool"
            /\ s[i + k].tool_call_id = s[i].tool_calls[k]
        /\ GroupsThenFinal(s, i + n + 1)
    ELSE
        /\ i = Len(s)
        /\ s[i].role = "assistant"
        /\ s[i].tool_calls = <<>>

\* C8: a successful request has appended, in order: the user message, the
\* tool-call groups of its tool-calling iterations, one final plain
\* assistant message; and nothing else.
C8_AppendedInOrder ==
    Succeeded =>
        /\ Len(Appended) >= 2
        /\ Appended[1] = UserMsg("q")
        /\ GroupsThenFinal(Appended, 2)

\* Text that is not empty: not None and not the empty string.
NonEmpty(c) == c \notin {NoneV, ""}

\* Text that is empty once its white space is stripped.
Blank(c) == c \in {NoneV, "", " "}

\* This step handles an answer without tool calls: its text is recorded.
TextAnswered == Len(text_answers') = Len(text_answers) + 1

\* The text of the answer this step handles.
AnsweredText == text_answers'[Len(text_answers')]

\* An earlier answer of this request had no tool calls and empty text.
EmptyAnswerBefore == \E k \in 1..Len(text_answers) : ~NonEmpty(text_answers[k])

\* The step adds an empty assistant message to the running list and nothing
\* else: nothing is saved, and the loop goes on.
OnlyPlaceholderAdded ==
    /\ log' = log
    /\ messages_for_llm' = Append(messages_for_llm, AssistantMsg(""))
    /\ assistant_message' = assistant_message
    /\ outcome' = "none"
    /\ pc' = "loop"

\* The step saves the text it handles as the final assistant message, and
\* the request succeeds.
FinalSaved ==
    /\ log' = Append(log, AssistantMsg(AnsweredText))
    /\ assistant_message' = AssistantMsg(AnsweredText)
    /\ outcome' = "success"
    /\ pc' = "idle"

\* C9 as stated: an answer without tool calls and with empty text adds the
\* placeholder only, and the first answer after it that has non-empty text
\* and no tool calls becomes the final assistant message.
C9_FinalIsFirstNonEmpty ==
    [][TextAnswered =>
        IF NonEmpty(AnsweredText)
        THEN EmptyAnswerBefore => FinalSaved
        ELSE OnlyPlaceholderAdded]_vars

\* C9, amended: an answer without tool calls whose text is empty or white
\* space only adds the placeholder only; an answer without tool calls and
\* with other text becomes the final assistant message, so that the final
\* message of a request carries the first such text.
C9_EmptyAnswerSkipped ==
    /\ [][TextAnswered =>
            IF Blank(AnsweredText) THEN OnlyPlaceholderAdded ELSE FinalSaved]_vars
    /\ [](\A k \in 1..(Len(text_answers) - 1) : Blank(text_answers[k]))

\* A request that got an empty answer first and ended with the text of its
\* second answer as the final assistant message.
C9_Witness ==
    /\ Succeeded
    /\ text_answers = <<"", "hi">>
    /\ assistant_message = AssistantMsg("hi")
    /\ log[Len(log)] = AssistantMsg("hi")

\* C10: whatever happens in a tool call, the request is not aborted: a tool
\* message for the call is saved and the loop goes on to the next call or
\* the next iteration.
C10_ToolCallNeverAborts ==
    [][pc = "tools" =>
        /\ pc' \in {"tools", "loop"}
        /\ outcome' = "none"
        /\ Len(log') = Len(log) + 1
        /\ log'[Len(log')].role = "tool"
        /\ log'[Len(log')].tool_call_id = response.tool_calls[tool_idx].id
        /\ log'[Len(log')].content \in {"res", "err"}]_vars

\* The completion call of this step fails: the handler was waiting for the
\* model and the step handles no answer (no text recorded, no tool phase).
ModelCallFails ==
    /\ pc = "awaiting_model"
    /\ text_answers' = text_answers
    /\ pc' # "tools"

\* C11: a completion call that fails is not retried: the step ends the
\* request with a failure, with no success response, and issues no model
\* call and no tool call; nothing is saved.
C11_ModelFailureIsFatal ==
    [][ModelCallFails =>
        /\ pc' = "idle"
        /\ outcome' = "error_500"
        /\ model_calls' = model_calls
        /\ iteration' = iteration
        /\ events' = events
        /\ log' = log]_vars

\* A request that ended with a failure in its second completion call, after
\* an empty answer to the first.
C11_Witness ==
    /\ pc = "idle"
    /\ outcome = "error_500"
    /\ model_calls = 2
    /\ text_answers = <<"">>
    /\ Len(log) = 1

-----------------------------------------------------------------------------
(* More claims about TokenCounter, under WindowSpec *)

\* a[i..] is an order-preserving subsequence of b[j..].
RECURSIVE IsSubseqFrom(_, _, _, _)
IsSubseqFrom(a, i, b, j) ==
    IF i > Len(a) THEN TRUE
    ELSE IF j > Len(b) THEN FALSE
    ELSE IF a[i] = b[j] THEN IsSubseqFrom(a, i + 1, b, j + 1)
    ELSE IsSubseqFrom(a, i, b, j + 1)

\* a is b with some messages deleted: nothing modified, duplicated or moved.
IsSubseq(a, b) == IsSubseqFrom(a, 1, b, 1)

\* The newest n elements of s (none for n = 0).
Newest(s, n) ==
    IF n >= Len(s) THEN s ELSE SubSeq(s, Len(s) - n + 1, Len(s))

\* C12: with max_messages = N >= 0, apply_rolling_window returns at most N
\* messages, all taken from the newest N messages of the repaired input.
C12_AtMostMaxMessages ==
    (op = "window" /\ in_max_messages # NoneInt) =>
        /\ Len(out_messages) <= in_max_messages
        /\ IsSubseq(out_messages,
                    Newest(verify_tool_integrity(in_messages), in_max_messages))

\* C13: the token count apply_rolling_window returns is count_message_tokens
\* of the sequence it returns, for every input, the empty one included.
C13_CountMatchesResult ==
    op = "window" => out_tokens = count_message_tokens(out_messages)

\* The newest message of s.
Last(s) == s[Len(s)]

BeforeTokenLimit ==
    LET m1 == verify_tool_integrity(in_messages)
    IN  IF in_max_messages # NoneInt /\ Len(m1) > in_max_messages
        THEN verify_tool_integrity(LastN(m1, in_max_messages))
        ELSE m1

C15_OnlyDeletes ==
    /\ op \in {"repair", "window"} => IsSubseq(out_messages, in_messages)
    /\ op = "repair2" => IsSubseq(out_messages, prev_messages)

\* A call of apply_rolling_window that has dropped messages from the middle
\* and the end of its input and kept two.
C15_Witness ==
    /\ op = "window"
    /\ Len(in_messages) = 4
    /\ Len(out_messages) = 2
    /\ out_messages[1] # out_messages[2]
    /\ out_messages # SubSeq(in_messages, 3, 4)
    /\ out_messages # SubSeq(in_messages, 1, 2)

-----------------------------------------------------------------------------
(* Claims about message and tool preparation, under PrepSpec and Spec *)

\* C16: for a stored conversation prepare_messages returns one entry per
\* stored message, in the stored order and with its role and content, then
\* one user message with the new text; and the enabled tools unchanged.
C16_HistoryThenUserMessage ==
    (p_op = "messages" /\ p_conv.found) =>
        /\ p_prepared.found
        /\ Len(p_prepared.messages) = Len(p_conv.messages) + 1
        /\ \A k \in 1..Len(p_conv.messages) :
            /\ p_prepared.messages[k].role = p_conv.messages[k].role
            /\ p_prepared.messages[k].content = p_conv.messages[k].content
        /\ Last(p_prepared.messages) = UserMsg("q")
        /\ p_prepared.enabled_tools = p_conv.enabled_tools

\* prepare_messages has run on a stored conversation with a history of four
\* messages and two enabled tools.
C16_Witness ==
    /\ p_op = "messages"
    /\ p_conv.found
    /\ Len(p_conv.messages) = 4
    /\ Len(p_conv.enabled_tools) = 2
    /\ Len(p_prepared.messages) = 5

\* C17: for a conversation id that is not stored, message preparation
\* reports not-found and changes nothing, and the chat request fails as
\* not-found with nothing saved and no model or tool call; preparation never
\* changes the stored conversation.
C17_NotFoundChangesNothing ==
    /\ [][p_op' # p_op =>
            /\ p_conv' = p_conv
            /\ log' = log
            /\ (p_op' = "messages" => p_prepared'.found = p_conv.found)]_vars
    /\ [][outcome' = "error_404" =>
            /\ ~p_conv.found
            /\ p_conv' = p_conv
            /\ log' = log
            /\ pc' = "idle"
            /\ model_calls' = model_calls
            /\ iteration' = iteration
            /\ events' = events
            /\ messages_for_llm' = messages_for_llm]_vars

\* A chat request for an unknown conversation has failed as not-found, and
\* prepare_messages has reported not-found for it.
C17_Witness ==
    /\ outcome = "error_404"
    /\ p_op = "messages"
    /\ ~p_conv.found
    /\ ~p_prepared.found

\* The enabled tool's server is known, running, lists its tools, and declares
\* the tool.
Eligible(e) ==
    /\ p_servers[e.server_id].status = "running"
    /\ ~p_servers[e.server_id].list_fails
    /\ \E k \in 1..Len(p_servers[e.server_id].tools) :
           p_servers[e.server_id].tools[k] = e.tool_name

EligibleAt == {i \in 1..Len(p_conv.enabled_tools) : Eligible(p_conv.enabled_tools[i])}

\* C18: prepare_tools_for_llm returns for every list of enabled tools; an
\* enabled tool whose server is absent, not running or fails to list its
\* tools is skipped, every other enabled tool is still processed, and the
\* mapping holds only tools that a running server declares.
C18_SkipsAndGoesOn ==
    p_op = "tools" =>
        /\ Len(p_tools.tools_for_llm) = Cardinality(EligibleAt)
        /\ DOMAIN p_tools.mapping =
               {p_conv.enabled_tools[i].tool_name : i \in EligibleAt}
        /\ \A n \in DOMAIN p_tools.mapping :
               /\ p_servers[p_tools.mapping[n]].status = "running"
               /\ \E i \in EligibleAt :
                      /\ p_conv.enabled_tools[i].tool_name = n
                      /\ p_conv.enabled_tools[i].server_id = p_tools.mapping[n]

\* Three enabled tools: the first one's server is not running, the second
\* one's fails to list its tools, the third one is taken.
C18_Witness ==
    /\ p_op = "tools"
    /\ Len(p_conv.enabled_tools) = 3
    /\ p_servers[p_conv.enabled_tools[1].server_id].status # "running"
    /\ ~Eligible(p_conv.enabled_tools[2])
    /\ Eligible(p_conv.enabled_tools[3])
    /\ p_tools.tools_for_llm = <<p_conv.enabled_tools[3].tool_name>>

\* C19: when several enabled tools resolve to the same tool name on different
\* running servers, the name maps to the server of the first of them in
\* enabled-tools order.
C19_FirstMappingKept ==
    p_op = "tools" =>
        \A i \in EligibleAt :
            (\A j \in EligibleAt :
                p_conv.enabled_tools[j].tool_name = p_conv.enabled_tools[i].tool_name
                    => i <= j)
            => p_tools.mapping[p_conv.enabled_tools[i].tool_name]
                   = p_conv.enabled_tools[i].server_id

\* C20: a tool runtime that never responds cannot stall the chat request:
\* every tool call the loop has reached is over after a bounded wait, with an
\* error payload as its result if the runtime stayed silent.
C20_ToolCallsComplete ==
    \A k \in 1..2 :
        (pc = "tools" /\ tool_idx = k) ~> ~(pc = "tools" /\ tool_idx = k)

-----------------------------------------------------------------------------
(* More claims about TokenCounter, under WindowSpec *)

\* The state of the scan of repair when it comes to in_messages[i].
ScanBefore(i) ==
    Scan(SubSeq(in_messages, 1, i - 1), 1, [verified |-> <<>>, active |-> {}])

\* The position of the newest assistant message with tool calls that the scan
\* has kept when it comes to in_messages[i]; 0 if there is none.
PendingAssistant(i) ==
    LET v == ScanBefore(i).verified
        at == {k \in 1..Len(v) : HasToolCalls(in_messages[v[k]])}
    IN  IF at = {} THEN 0 ELSE v[CHOOSE x \in at : \A y \in at : y <= x]

\* C22: in repair, when an assistant message with tool calls arrives while
\* calls of an earlier assistant message are still pending, the earlier
\* assistant message is discarded from the output and the new one is kept
\* (the pending set restarting from the new message's call ids).
C22_EarlierPendingDiscarded ==
    op = "repair" =>
        \A i \in 1..Len(in_messages) :
            (HasToolCalls(in_messages[i]) /\ ScanBefore(i).active # {}
                /\ PendingAssistant(i) # 0)
            => /\ PendingAssistant(i) \notin Range(KeptIndices(in_messages))
               /\ ScanBefore(i + 1).active = Range(in_messages[i].tool_calls)
               /\ out_messages = Pick(in_messages, KeptIndices(in_messages))

\* The newest k messages of m.
SuffixOf(m, k) == SubSeq(m, Len(m) - k + 1, Len(m))

\* The length of the longest suffix of m whose cost with the priming tokens
\* is within max_tokens; 0 if there is none.
LongestFitting(m, max_tokens) ==
    LET ks == {k \in 1..Len(m) : SumTokens(SuffixOf(m, k)) + 3 <= max_tokens}
    IN  IF ks = {} THEN 0 ELSE CHOOSE k \in ks : \A j \in ks : j <= k

\* What the walk of _safe_apply_max_tokens keeps, before its final repair.
KeptByWalk ==
    TokenWalk(BeforeTokenLimit, Len(BeforeTokenLimit), <<>>, 3, in_max_tokens)

\* C23: with max_tokens set, the messages kept before the final repair are
\* exactly the longest suffix whose summed cost plus the priming overhead of
\* 3 does not exceed max_tokens; no older message is kept even if it fits.
C23_KeepsLongestFittingSuffix ==
    (op = "window" /\ in_max_tokens # NoneInt /\ in_messages # <<>>) =>
        LET before == BeforeTokenLimit
            kept == TokenWalk(before, Len(before), <<>>, 3, in_max_tokens)
        IN  /\ kept = SuffixOf(before, LongestFitting(before, in_max_tokens))
            /\ out_messages = verify_tool_integrity(verify_tool_integrity(kept))

\* The walk has stopped at a message that does not fit, and an older message
\* that would still fit the budget is not kept.
C23_Witness ==
    /\ op = "window"
    /\ in_max_tokens # NoneInt
    /\ KeptByWalk # <<>>
    /\ Len(KeptByWalk) + 1 < Len(BeforeTokenLimit)
    /\ \E j \in 1..(Len(BeforeTokenLimit) - Len(KeptByWalk) - 1) :
           3 + SumTokens(KeptByWalk) + MsgTokens(BeforeTokenLimit[j]) <= in_max_tokens

-----------------------------------------------------------------------------
(* More claims about the chat endpoint, under Spec *)

\* The tool calls of the last answer have all been executed.
ToolsDone ==
    /\ pc = "loop"
    /\ response.tool_calls # <<>>
    /\ tool_idx = Len(response.tool_calls) + 1

\* The running list ends with the assistant message of the last answer and
\* one tool message per call of it, in call order.
EndsWithGroup ==
    LET n == Len(response.tool_calls)
        L == Len(messages_for_llm)
    IN  /\ L >= n + 1
        /\ messages_for_llm[L - n] = ToolCallsMsg(response.content, CallIdsOf(response))
        /\ \A k \in 1..n :
            /\ messages_for_llm[L - n + k].role = "tool"
            /\ messages_for_llm[L - n + k].tool_call_id = response.tool_calls[k].id

\* C24: in every iteration the window is applied before the model call, to
\* the running list that already holds the assistant and tool messages of
\* the earlier iterations, and the model call of the iteration receives
\* exactly the system prompt followed by the window's result.
C24_WindowThenModelCall ==
    /\ [](ToolsDone => EndsWithGroup)
    /\ [][model_calls' # model_calls /\ requests' = requests =>
            LET w == IF Truthy(conv_max_tokens) \/ Truthy(conv_max_messages)
                     THEN apply_rolling_window(messages_for_llm, conv_max_tokens,
                                               conv_max_messages).messages
                     ELSE messages_for_llm
            IN  /\ pc = "loop"
                /\ pc' = "awaiting_model"
                /\ model_calls' = model_calls + 1
                /\ messages_for_llm' = w
                /\ request_messages' = <<SystemMsg("sys")>> \o w]_vars

\* The model call of the second iteration is out: the window has cut the
\* running list, which held the tool messages of the first iteration.
C24_Witness ==
    /\ pc = "awaiting_model"
    /\ iteration = 2
    /\ response.tool_calls # <<>>
    /\ Len(request_messages) = 1 + Len(messages_for_llm)
    /\ Len(messages_for_llm) < Len(log)
    /\ \E k \in 1..Len(messages_for_llm) : messages_for_llm[k].role = "tool"

\* The log ends with the assistant message of the last answer and the tool
\* messages of its first n calls, in call order.
LogEndsWithCalls(n) ==
    LET L == Len(log)
    IN  /\ L >= n + 1
        /\ log[L - n] = ToolCallsMsg(response.content, CallIdsOf(response))
        /\ \A k \in 1..n :
            /\ log[L - n + k].role = "tool"
            /\ log[L - n + k].tool_call_id = response.tool_calls[k].id
            /\ log[L - n + k] = messages_for_llm[Len(messages_for_llm) - n + k]

\* C25: within one chat request at most one tool call is in flight: the tool
\* message of call k is persisted and appended to the running list before
\* call k+1 is started, and the next model call starts only after the tool
\* messages of all calls of the iteration have been appended.
C25_OneToolCallAtATime ==
    /\ [](pc = "tools" =>
            /\ tool_idx \in 1..Len(response.tool_calls)
            /\ LogEndsWithCalls(tool_idx - 1))
    /\ [][tool_idx' # tool_idx /\ pc = "tools" =>
            /\ tool_idx' = tool_idx + 1
            /\ Len(log') = Len(log) + 1
            /\ log'[Len(log')].tool_call_id = response.tool_calls[tool_idx].id
            /\ messages_for_llm' = Append(messages_for_llm, log'[Len(log')])]_vars
    /\ [][model_calls' = model_calls + 1 =>
            /\ pc = "loop"
            /\ (response.tool_calls # <<>> /\ tool_idx > 0) =>
                   /\ tool_idx = Len(response.tool_calls) + 1
                   /\ LogEndsWithCalls(Len(response.tool_calls))]_vars

\* The second tool call of an answer is about to start; the tool message of
\* the first one is the last entry of the log and of the running list.
C25_Witness ==
    /\ pc = "tools"
    /\ tool_idx = 2
    /\ Len(response.tool_calls) = 2
    /\ log[Len(log)] = ToolMsg("res", "a", "good")
    /\ messages_for_llm[Len(messages_for_llm)] = ToolMsg("res", "a", "good")

\* The tool call that is executed next, and the step that executes it.
CurrentCall == response.tool_calls[tool_idx]

ToolCallStep == pc = "tools" /\ (tool_idx' # tool_idx \/ pc' # "tools")

\* The arguments of the call are a JSON object.
ArgsParse(c) == c.arguments # "{oops"

ContextArguments == {"tool_usage_reason", "error_handling_plan"}

C27_ContextArgumentsStripped ==
    [][(ToolCallStep /\ dispatch'.invoked) =>
            /\ \A kv \in dispatch'.sent : kv[1] \notin ContextArguments
            /\ \A kv \in json_loads(CurrentCall.arguments) :
                   kv[1] \notin ContextArguments => kv \in dispatch'.sent
            /\ dispatch'.sent \subseteq json_loads(CurrentCall.arguments)
            /\ dispatch'.tool_args = json_loads(CurrentCall.arguments)]_vars

\* The runtime has been invoked for a call whose arguments held both context
\* arguments and one argument of the tool.
C27_Witness ==
    /\ dispatch.invoked
    /\ dispatch.sent = {<<"x", "1">>}
    /\ Cardinality(dispatch.tool_args) = 3

\* The text a tool call gives when every emit succeeds.
ResultWithSinkUp(c) == IF c.name = "good" THEN "res" ELSE "err"

\* C29: a failure of the event sink never changes the outcome of a chat
\* request: whether or not the emits raise, the tool call returns the same
\* text, the same messages are persisted, and the loop goes on in the same way.
C29_SinkFailureChangesNothing ==
    [][(ToolCallStep /\ ArgsParse(CurrentCall)) =>
            /\ log' = Append(log, ToolMsg(ResultWithSinkUp(CurrentCall),
                                          CurrentCall.id, CurrentCall.name))
            /\ messages_for_llm' = Append(messages_for_llm, log'[Len(log')])
            /\ outcome' = outcome
            /\ tool_idx' = tool_idx + 1
            /\ pc' = IF tool_idx = Len(response.tool_calls) THEN "loop" ELSE "tools"
            /\ (pc' = "loop" =>
                    request_messages' = <<SystemMsg("sys")>> \o messages_for_llm')
            /\ events' = IF CurrentCall.name = "good"
                         THEN <<"tool_call", "tool_response">>
                         ELSE <<"tool_call", "tool_error">>]_vars

\* The emits of the last tool call raised, its result is saved, and the loop
\* has gone on to the next model call.
C29_Witness ==
    /\ sink = "failing"
    /\ dispatch.emit_raised
    /\ pc = "awaiting_model"
    /\ iteration = 2
    /\ log[Len(log) - 1] = ToolMsg("res", "a", "good")
    /\ log[Len(log)] = ToolMsg("err", "b", "flaky")

\* C21: once the chat request is cancelled, the loop issues no further model
\* call and no further tool call; the result of a tool call that was in
\* flight is not appended.
C21_NoCallAfterCancel ==
    /\ [][outcome' = "cancelled" /\ outcome # "cancelled" =>
            /\ pc' = "idle"
            /\ model_calls' = model_calls
            /\ dispatch' = dispatch
            /\ log' = log]_vars
    /\ [][outcome = "cancelled" /\ requests' = requests =>
            /\ pc' = "idle"
            /\ model_calls' = model_calls
            /\ dispatch' = dispatch
            /\ events' = events
            /\ log' = log]_vars

\* The request was cancelled while the second tool call of an answer was in
\* flight: the first call's tool message is the last entry of the log.
C21_Witness ==
    /\ outcome = "cancelled"
    /\ pc = "idle"
    /\ Len(response.tool_calls) = 2
    /\ tool_idx = 2
    /\ log[Len(log)] = ToolMsg("res", "a", "good")

-----------------------------------------------------------------------------
(* Claims about the helpers of tool_execution, under HelperSpec *)

\* C28: schema injection works on a clone: after
\* inject_required_context_arguments the schema object declared by the
\* server, its properties map and its required list included, is unchanged,
\* and the two injected required string fields are in the returned schema.
C28_InputSchemaUnchanged ==
    h_op = "inject" =>
        /\ h_schema = h_input
        /\ {<<"tool_usage_reason", "string">>, <<"error_handling_plan", "string">>}
               \subseteq h_modified.properties
        /\ \E j, k \in 1..Len(h_modified.required) :
               /\ h_modified.required[j] = "tool_usage_reason"
               /\ h_modified.required[k] = "error_handling_plan"

-----------------------------------------------------------------------------
(* Claims about ProcessManager, under ProcSpec *)

\* The server a key names in the tables of the state: the one with that id,
\* or else the one with that slug.
Named(key) ==
    IF \E server \in m_servers : server.id = key
    THEN {server \in m_servers : server.id = key}
    ELSE {server \in m_servers : server.slug = key}

\* With any server of the table taken to be RUNNING or STARTING,
\* remove_server by its id or its slug raises and gives back both tables.
RemoveRefusesActive ==
    \A server \in m_servers, status \in {"running", "starting"} :
        LET servers == (m_servers \ {server})
                          \cup {ServerInfo(server.id, server.name, server.slug, status)}
        IN  \A key \in {server.id, server.slug} :
                remove_server(servers, m_slug_to_id, key) =
                    [result |-> "MCPError", servers |-> servers,
                     slug_to_id |-> m_slug_to_id]

\* C30: remove_server on a server whose status is RUNNING or STARTING fails
\* with an error and leaves the server table and the slug table unchanged;
\* on an unknown key it returns False and changes nothing; otherwise it
\* removes the server from the server table and its slug from the slug table.
C30_RemoveServer ==
    [][ /\ RemoveRefusesActive
        /\ m_result'.op = "remove" =>
             LET named == Named(m_result'.key)
             IN  IF named = {}
                 THEN /\ m_result'.result = "False"
                      /\ UNCHANGED <<m_servers, m_slug_to_id>>
                 ELSE \A server \in named :
                        IF server.status \in {"running", "starting"}
                        THEN /\ m_result'.result = "MCPError"
                             /\ UNCHANGED <<m_servers, m_slug_to_id>>
                        ELSE /\ m_result'.result = "True"
                             /\ m_servers' = m_servers \ {server}
                             /\ server \notin m_servers'
                             /\ m_slug_to_id' =
                                  {item \in m_slug_to_id : item[1] # server.slug}
                             /\ \A item \in m_slug_to_id' : item[2] # server.id
      ]_vars

\* A remove of a running server by its slug was refused, and another server
\* was removed before it: the table holds the running server only.
C30_Witness ==
    /\ m_result.op = "remove"
    /\ m_result.result = "MCPError"
    /\ \E server \in m_servers :
          /\ server.slug = m_result.key
          /\ server.status = "running"
          /\ <<server.slug, server.id>> \in m_slug_to_id
    /\ Cardinality(m_servers) = 1

\* The slugs of the registered servers are pairwise distinct, and the slug
\* table holds one item per registered server: its slug with its id.
SlugTableExact ==
    /\ \A s, t \in m_servers : s.slug = t.slug => s = t
    /\ m_slug_to_id = {<<server.slug, server.id>> : server \in m_servers}
    /\ \A item, other \in m_slug_to_id : item[1] = other[1] => item = other

\* C40: after any sequence of add_server and remove_server calls (and of
\* start_server and stop_server calls between them) server slugs are
\* pairwise distinct and the slug table maps exactly the slugs of the
\* registered servers, each to its own id; add_server with a name already
\* in use fails and changes nothing, so a successful add_server registers
\* one server under a name not in use before.
C40_SlugsDistinctAndTableExact ==
    /\ SlugTableExact
    /\ [][ /\ SlugTableExact'
           /\ m_result'.op = "add" =>
                IF m_result'.result = "MCPError"
                THEN UNCHANGED <<m_servers, m_slug_to_id>>
                ELSE \E server \in m_servers' \ m_servers :
                        /\ m_servers' = m_servers \cup {server}
                        /\ \A other \in m_servers : other.name # server.name
                        /\ \A other \in m_servers : other.id # server.id
         ]_vars

\* Two servers are registered whose names give the same base slug, the
\* second under the numbered slug, and an add_server with a name in use has
\* just been refused.
C40_Witness ==
    /\ m_result.op = "add"
    /\ m_result.result = "MCPError"
    /\ {server.slug : server \in m_servers} = {<<"a">>, <<"a", "-", "1">>}
    /\ {server.name : server \in m_servers} = {<<"A">>, <<"a">>}

-----------------------------------------------------------------------------
(* Claims about the persisted log, under Spec *)

\* In s every assistant message with tool calls is followed by one tool
\* message per call, in call order.
GroupsComplete(s) ==
    \A i \in 1..Len(s) :
        HasToolCalls(s[i]) =>
            /\ i + Len(s[i].tool_calls) <= Len(s)
            /\ \A k \in 1..Len(s[i].tool_calls) :
                   /\ s[i + k].role = "tool"
                   /\ s[i + k].tool_call_id = s[i].tool_calls[k]

\* C33: whenever a chat request ends, with a success response or with an
\* error, every assistant message with tool calls that the request persisted
\* is followed in the log by one persisted tool message for each of its calls.
C33_PersistedLogWellFormed ==
    (pc = "idle" /\ outcome \in {"success", "error_500"}) => GroupsComplete(Appended)

-----------------------------------------------------------------------------
(* More claims about message preparation, under PrepSpec *)

\* C34: message preparation preserves tool-call structure: the prepared
\* message of every stored assistant message has its tool_calls, that of
\* every stored tool message its tool_call_id and name; so a history whose
\* tool-call groups are complete is prepared into a list whose groups are
\* complete, and repair on the next request keeps every message of it.
C34_ToolCallStructureKept ==
    (p_op = "messages" /\ p_conv.found) =>
        /\ \A k \in 1..Len(p_conv.messages) :
              /\ p_prepared.messages[k].tool_calls = p_conv.messages[k].tool_calls
              /\ p_conv.messages[k].role = "tool" =>
                    /\ p_prepared.messages[k].tool_call_id
                           = p_conv.messages[k].tool_call_id
                    /\ p_prepared.messages[k].name = p_conv.messages[k].name
        /\ GroupsComplete(p_conv.messages) =>
              /\ GroupsComplete(p_prepared.messages)
              /\ verify_tool_integrity(p_prepared.messages) = p_prepared.messages

-----------------------------------------------------------------------------
(* Claims about the token count, under WindowSpec *)

\* The walk costs of the messages of s, added up.
RECURSIVE WalkCost(_)
WalkCost(s) ==
    IF s = <<>> THEN 0 ELSE walk_msg_tokens(Head(s)) + WalkCost(Tail(s))

\* C35: when max_tokens is set and apply_rolling_window returns a non-empty
\* sequence, the token count it returns is at most max_tokens; the walk from
\* newest to oldest costs every message what count_message_tokens costs it,
\* so the count returned is 3 plus the walk costs of the messages returned.
C35_CountWithinBudget ==
    (op = "window" /\ in_max_tokens # NoneInt /\ out_messages # <<>>) =>
        /\ out_tokens <= in_max_tokens
        /\ out_tokens = 3 + WalkCost(out_messages)
        /\ \A k \in 1..Len(in_messages) :
               walk_msg_tokens(in_messages[k]) = MsgTokens(in_messages[k])

\* The walk has cut the input: three of its four messages are returned, and
\* their count of 18 is within the budget of 20.
C35_Witness ==
    /\ op = "window"
    /\ in_max_tokens = 20
    /\ Len(in_messages) = 4
    /\ Len(out_messages) = 3
    /\ out_tokens = 18

-----------------------------------------------------------------------------
(* Claims about the notifications of a tool call, under Spec *)

TerminalEvents == {"tool_response", "tool_error"}

\* C36: for every tool call whose arguments parse, the notifications emitted
\* are a call-started event followed by exactly one terminal event, either
\* tool-response or tool-error: never both, and never a terminal event that
\* no call-started event precedes.
C36_StartedThenOneTerminal ==
    [][(ToolCallStep /\ ArgsParse(CurrentCall)) =>
          LET e == events'
              terminals == {k \in 1..Len(e) : e[k] \in TerminalEvents}
              started == {k \in 1..Len(e) : e[k] = "tool_call"}
          IN  /\ Cardinality(started) = 1
              /\ Cardinality(terminals) = 1
              /\ \A k \in terminals : \E j \in started : j < k
              /\ \A k \in 1..Len(e) : k \in started \cup terminals
              /\ (\E k \in terminals : e[k] = "tool_response")
                    <=> (CurrentCall.name \in tool_server_mapping
                            /\ log'[Len(log')].content = "res")]_vars

\* Both calls of an answer have run: the first was answered by its server,
\* the second failed in the runtime and has emitted its error event.
C36_Witness ==
    /\ pc = "loop"
    /\ Len(response.tool_calls) = 2
    /\ tool_idx = 3
    /\ events = <<"tool_call", "tool_error">>
    /\ dispatch.invoked
    /\ log[Len(log)].content = "err"
    /\ log[Len(log) - 1].content = "res"

-----------------------------------------------------------------------------
(* Claims about concurrent chat requests, under ConcSpec *)

\* How often m occurs in s.
Occurrences(m, s) == Cardinality({k \in 1..Len(s) : s[k] = m})

\* C39: with two chat requests running concurrently on one conversation no
\* appended message is lost: every message either request has saved is in the
\* stored log, the messages of each request in the order it saved them, and
\* the log holds as many copies of a message as the two requests saved.
C39_NoAppendLost ==
    /\ \A r \in Requests : IsSubseq(q_req[r].saved, q_log)
    /\ \A r \in Requests : \A k \in 1..Len(q_req[r].saved) :
           LET m == q_req[r].saved[k]
           IN  Occurrences(m, q_log)
                   >= Occurrences(m, q_req[1].saved) + Occurrences(m, q_req[2].saved)
    /\ \E h \in ConcHistories :
           Len(q_log) = Len(h) + Len(q_req[1].saved) + Len(q_req[2].saved)

\* Both requests have ended with success and their messages interleave: the
\* user message and the answer of the second request were saved between the
\* two tool messages of the first.
C39_Witness ==
    /\ \A r \in Requests : q_req[r].pc = "done" /\ q_req[r].outcome = "success"
    /\ \E i \in 1..(Len(q_log) - 3) :
           /\ q_log[i] = ToolMsg("res", "a", "good")
           /\ q_log[i + 1] = UserMsg("q2")
           /\ q_log[i + 2] = AssistantMsg("hi")
           /\ q_log[i + 3] = ToolMsg("res", "b", "good")

-----------------------------------------------------------------------------
(* Claims about lifecycle_manager, under LifeSpec *)

\* This step ends a call of task t.
CallEnds(t, operation) ==
    /\ l_task'[t].pc = "idle"
    /\ l_task'[t].op = operation
    /\ l_task[t].pc # "idle" \/ l_task'[t] # l_task[t]

StatusOf(servers, server_id) ==
    {server.status : server \in {x \in servers : x.id = server_id}}

C37_RunningIffClient ==
    (l_task[2] = NoCall /\ l_task[1].pc = "idle") =>
        \A server \in m_servers :
            server.status = "running" <=> in_clients(l_clients, server.id)

\* C38: no step replaces the client stored for a server while that client is
\* connected.
C38_NoConnectedClientOverwritten ==
    [][\A k \in 1..Len(l_clients) : \A j \in 1..Len(l_clients') :
          (l_clients[k][1] = l_clients'[j][1] /\ l_clients[k][2] # l_clients'[j][2])
              => l_conn[l_clients[k][2]] # "connected"
      ]_vars

====
